---- MODULE Spec2Model ----
(***************************************************************************)
(* Chord-Generator: the order-N Markov chain over jazz chords              *)
(* (Markov_Chain_For_Chords.py, phrase_aware_markov_chain.py), the phrase  *)
(* segmenter (Phrase_Analysis.py), the key detector (key_detector.py),     *)
(* the chord (JazzChord.py) and the progression synthesis loops            *)
(* (main_app.py, JazzHarmonizer.py).                                       *)
(*                                                                         *)
(* Conventions.  A Python str is a sequence of one-character strings, so   *)
(* that str(chord) and _parse_chord_string are computed, not assumed.  A   *)
(* Python dict / Counter is a sequence of [k, v] records in insertion      *)
(* order (dicts iterate in insertion order, which decides argmax ties and  *)
(* most_common ties).  A float probability count/total is the reduced      *)
(* fraction <<num, den>>.  Beats are counted in ticks of 1/TicksPerBeat.   *)
(***************************************************************************)
EXTENDS Integers, Sequences, FiniteSets, TLC

VARIABLES
    order,                  \* MarkovChain.order
    transitions,            \* MarkovChain.transitions: state -> Counter(next chord)
    chord_vocab,            \* MarkovChain.chord_vocab
    start_states,           \* MarkovChain.start_states
    probabilities,          \* MarkovChain._probabilities
    phrase_transitions,     \* PhraseAwareMarkovChain.phrase_transitions
    cadence_progressions,   \* PhraseAwareMarkovChain.cadence_progressions
    trains,                 \* number of train calls made so far
    melody,                 \* the notes handed to the segmenter / synthesizer
    last                    \* the call in progress at the caller: operation, arguments, outcome

chain == <<order, transitions, chord_vocab, start_states, probabilities,
           phrase_transitions, cadence_progressions>>
vars == <<order, transitions, chord_vocab, start_states, probabilities,
          phrase_transitions, cadence_progressions, trains, melody, last>>

-----------------------------------------------------------------------------
(* Bounds of the model *)

MaxTrains == 2          \* train calls per behaviour
MaxCorpus == 1          \* progressions per train call
MaxProgLen == 3         \* chords per training progression
MaxHistLen == 2         \* chords per history / start sequence handed to a query
MaxLength == 3          \* largest length asked of generate_sequence
MaxTrainCorpus == 2     \* progressions per train call when only training is explored
TicksPerBeat == 2       \* ticks to the beat: positions are multiples of 1/TicksPerBeat beat
MaxNotes == 3           \* notes per melody handed to the segmenter
MaxStart == 8           \* latest start of a note, in ticks
MaxDuration == 2        \* longest note, in ticks
MaxSynthNotes == 2      \* notes per melody handed to the synthesis loops
MaxKeyNotes == 2        \* notes per melody handed to key detection

-----------------------------------------------------------------------------
(* Python str *)

StartsWithAt(s, sub, i) ==
    /\ i + Len(sub) - 1 <= Len(s)
    /\ SubSeq(s, i, i + Len(sub) - 1) = sub

\* sub in s
Contains(s, sub) == \E i \in 1..Len(s) : StartsWithAt(s, sub, i)

RECURSIVE RemoveFrom(_, _, _)
RemoveFrom(s, sub, i) ==
    IF i > Len(s) THEN <<>>
    ELSE IF StartsWithAt(s, sub, i) THEN RemoveFrom(s, sub, i + Len(sub))
    ELSE <<s[i]>> \o RemoveFrom(s, sub, i + 1)

\* s.replace(sub, "")
Remove(s, sub) == RemoveFrom(s, sub, 1)

RECURSIVE Join(_)
\* "".join(strs)
Join(strs) == IF strs = <<>> THEN <<>> ELSE Head(strs) \o Join(Tail(strs))

-----------------------------------------------------------------------------
(* JazzChord *)

JazzChord(root, quality, extensions) ==
    [root |-> root, quality |-> quality, extensions |-> extensions]

\* JazzChord.__str__
ChordStr(chord) == chord.root \o chord.quality \o Join(chord.extensions)

\* JazzChord.__eq__, for two JazzChord: the extensions are compared as lists
__eq__(self, other) ==
    /\ self.root = other.root
    /\ self.quality = other.quality
    /\ self.extensions = other.extensions

\* JazzChord.__hash__: the hash of (root, quality, tuple(sorted(extensions))).
\* Two sorted tuples are equal exactly when every extension occurs as often
\* in one list as in the other, so the sorted tuple is kept as these counts.
__hash__(self) ==
    <<self.root, self.quality,
      {<<self.extensions[i],
         Cardinality({j \in DOMAIN self.extensions : self.extensions[j] = self.extensions[i]})>>
          : i \in DOMAIN self.extensions}>>

m7 == <<"m", "7">>
maj7 == <<"m", "a", "j", "7">>
dom7 == <<"7">>
m7b5 == <<"m", "7", "b", "5">>

Dm7 == JazzChord(<<"D">>, m7, <<>>)
G7 == JazzChord(<<"G">>, dom7, <<>>)
Cmaj7 == JazzChord(<<"C">>, maj7, <<>>)
Am7 == JazzChord(<<"A">>, m7, <<>>)
Fmaj7 == JazzChord(<<"F">>, maj7, <<>>)
Em7 == JazzChord(<<"E">>, m7, <<>>)
A7 == JazzChord(<<"A">>, dom7, <<>>)
Bm7b5 == JazzChord(<<"B">>, m7b5, <<>>)
E7 == JazzChord(<<"E">>, dom7, <<>>)

\* _parse_chord_string testing for "7" before the longer quality names
_parse_chord_string_seventh_first(chord_str) ==
    IF Contains(chord_str, dom7)
    THEN JazzChord(Remove(chord_str, dom7), dom7, <<>>)
    ELSE JazzChord(chord_str, maj7, <<>>)

\* MarkovChain._parse_chord_string; "oslash" and "Delta" stand for the
\* characters U+00F8 and U+0394
_parse_chord_string(chord_str) ==
    IF Contains(chord_str, m7b5) \/ Contains(chord_str, <<"oslash">>)
    THEN JazzChord(Remove(Remove(chord_str, m7b5), <<"oslash">>), m7b5, <<>>)
    ELSE IF Contains(chord_str, m7) \/ Contains(chord_str, <<"-", "7">>)
    THEN JazzChord(Remove(Remove(chord_str, m7), <<"-", "7">>), m7, <<>>)
    ELSE IF Contains(chord_str, maj7) \/ Contains(chord_str, <<"Delta">>)
    THEN JazzChord(Remove(Remove(chord_str, maj7), <<"Delta">>), maj7, <<>>)
    ELSE IF Contains(chord_str, dom7)
    THEN JazzChord(Remove(chord_str, dom7), dom7, <<>>)
    ELSE JazzChord(chord_str, maj7, <<>>)

-----------------------------------------------------------------------------
(* dict and Counter, in insertion order *)

DictKeys(d) == {d[i].k : i \in DOMAIN d}
HasKey(d, key) == \E i \in DOMAIN d : d[i].k = key
IndexOf(d, key) == CHOOSE i \in DOMAIN d : d[i].k = key
Get(d, key) == d[IndexOf(d, key)].v
Put(d, key, val) ==
    IF HasKey(d, key) THEN [d EXCEPT ![IndexOf(d, key)].v = val]
    ELSE Append(d, [k |-> key, v |-> val])
\* counter[key] += 1
CounterIncr(counter, key) ==
    Put(counter, key, IF HasKey(counter, key) THEN Get(counter, key) + 1 ELSE 1)

RECURSIVE SumValues(_)
\* sum(counter.values())
SumValues(counter) ==
    IF counter = <<>> THEN 0 ELSE Head(counter).v + SumValues(Tail(counter))

RemoveAt(s, i) == SubSeq(s, 1, i - 1) \o SubSeq(s, i + 1, Len(s))

-----------------------------------------------------------------------------
(* float arithmetic on probabilities, as exact reduced fractions *)

RECURSIVE GCD(_, _)
GCD(a, b) == IF b = 0 THEN a ELSE GCD(b, a % b)

Frac(n, d) == LET g == GCD(n, d) IN <<n \div g, d \div g>>
Zero == <<0, 1>>
One == <<1, 1>>
FracAdd(a, b) == Frac(a[1] * b[2] + b[1] * a[2], a[2] * b[2])
FracMul(a, b) == Frac(a[1] * b[1], a[2] * b[2])
FracDiv(a, b) == Frac(a[1] * b[2], a[2] * b[1])
FracLess(a, b) == a[1] * b[2] < b[1] * a[2]

RECURSIVE IntPow(_, _)
IntPow(x, e) == IF e = 0 THEN 1 ELSE x * IntPow(x, e - 1)
FracPow(a, e) == Frac(IntPow(a[1], e), IntPow(a[2], e))

RECURSIVE FracSum(_)
FracSum(fs) == IF fs = <<>> THEN Zero ELSE FracAdd(Head(fs), FracSum(Tail(fs)))

-----------------------------------------------------------------------------
(* MarkovChain.train *)

RECURSIVE CountTransitions_second(_, _, _, _)
\* CountTransitions taking the chord after the window's first chord as the next chord
CountTransitions_second(trans, progression, ord, i) ==
    IF i > Len(progression) - ord THEN trans
    ELSE LET state == SubSeq(progression, i, i + ord - 1)
             next_chord == progression[i + 1]
             counter == IF HasKey(trans, state) THEN Get(trans, state) ELSE <<>>
         IN CountTransitions_second(Put(trans, state, CounterIncr(counter, next_chord)),
                                    progression, ord, i + 1)

RECURSIVE CountTransitions(_, _, _, _)
\* the loop "for i in range(len(progression) - self.order)", i counted from 1
CountTransitions(trans, progression, ord, i) ==
    IF i > Len(progression) - ord THEN trans
    ELSE LET state == SubSeq(progression, i, i + ord - 1)
             next_chord == progression[i + ord]
             counter == IF HasKey(trans, state) THEN Get(trans, state) ELSE <<>>
         IN CountTransitions(Put(trans, state, CounterIncr(counter, next_chord)),
                             progression, ord, i + 1)

RECURSIVE TrainCounts(_, _, _)
\* the loop "for progression in progressions" of train
TrainCounts(trans, progressions, ord) ==
    IF progressions = <<>> THEN trans
    ELSE TrainCounts(CountTransitions(trans, Head(progressions), ord, 1),
                     Tail(progressions), ord)

RECURSIVE VocabOf(_)
VocabOf(progressions) ==
    IF progressions = <<>> THEN {}
    ELSE {Head(progressions)[i] : i \in DOMAIN Head(progressions)}
             \cup VocabOf(Tail(progressions))

\* _compute_probabilities dividing by the number of next chords, not by their counts
_compute_probabilities_bylen(trans) ==
    [i \in DOMAIN trans |->
        LET next_chords == trans[i].v
            total == Len(next_chords)
        IN [k |-> trans[i].k,
            v |-> [j \in DOMAIN next_chords |->
                     [k |-> next_chords[j].k, v |-> Frac(next_chords[j].v, total)]]]]

\* MarkovChain._compute_probabilities
_compute_probabilities(trans) ==
    [i \in DOMAIN trans |->
        LET next_chords == trans[i].v
            total == SumValues(next_chords)
        IN [k |-> trans[i].k,
            v |-> [j \in DOMAIN next_chords |->
                     [k |-> next_chords[j].k, v |-> Frac(next_chords[j].v, total)]]]]

RECURSIVE StartCounter(_, _, _)
StartCounter(counter, progressions, ord) ==
    IF progressions = <<>> THEN counter
    ELSE LET progression == Head(progressions)
         IN StartCounter(IF Len(progression) >= ord
                         THEN CounterIncr(counter, SubSeq(progression, 1, ord))
                         ELSE counter,
                         Tail(progressions), ord)

RECURSIVE most_common(_, _)
\* Counter.most_common(n): by count, largest first, ties in insertion order
most_common(counter, n) ==
    IF n = 0 \/ counter = <<>> THEN <<>>
    ELSE LET best == CHOOSE i \in DOMAIN counter :
                        /\ \A j \in DOMAIN counter : counter[j].v <= counter[i].v
                        /\ \A j \in 1..(i - 1) : counter[j].v < counter[i].v
         IN <<counter[best]>> \o most_common(RemoveAt(counter, best), n - 1)

MaxStartStates == 10

\* MarkovChain._find_common_start_states
_find_common_start_states(progressions, ord) ==
    LET common == most_common(StartCounter(<<>>, progressions, ord), MaxStartStates)
    IN [i \in DOMAIN common |-> common[i].k]

-----------------------------------------------------------------------------
(* MarkovChain: the query methods.  Every random draw is a set of outcomes. *)

Range(s) == {s[i] : i \in DOMAIN s}

\* the value None, where a chord is expected
None == JazzChord(<<>>, <<>>, <<>>)

RECURSIVE PadLoop(_)
\* the loop "while len(chords) < self.order" of _pad_sequence: the lists it can end with
PadLoop(chords) ==
    IF Len(chords) >= order THEN {chords}
    ELSE IF start_states # <<>> /\ Len(chords) = 0
    THEN UNION {PadLoop(Append(chords, start_states[i][1])) : i \in DOMAIN start_states}
    ELSE PadLoop(Append(chords, IF chords # <<>> THEN chords[Len(chords)] ELSE Cmaj7))

\* MarkovChain._pad_sequence: ret is the list returned, after is the caller's
\* list once the call is over (the loop appends to the caller's list in place)
_pad_sequence(chords) ==
    IF chords = <<>> /\ start_states # <<>>
    THEN {[ret |-> start_states[i], after |-> chords] : i \in DOMAIN start_states}
    ELSE {[ret |-> c, after |-> c] : c \in PadLoop(chords)}

\* np.argmax: the first index holding the maximum
argmax(probs) ==
    CHOOSE i \in DOMAIN probs :
        /\ \A j \in DOMAIN probs : ~FracLess(probs[i].v, probs[j].v)
        /\ \A j \in 1..(i - 1) : FracLess(probs[j].v, probs[i].v)

\* the temperature 1e-5, as the fraction <<n, d>>
Tiny == <<1, 100000>>

\* the float nan, as the fraction 0/0
NaN == <<0, 0>>

\* np.power(p, 1.0 / temperature) in double precision: exact for the small
\* whole exponents; for the exponent 1e5 of Tiny every p <= 133/134 underflows
\* to 0.0 (p ** 1e5 < 2 ** -1075), and the model holds no larger p below 1
Power(p, temperature) ==
    IF temperature = Tiny THEN (IF p = One THEN One ELSE Zero)
    ELSE FracPow(p, temperature[2] \div temperature[1])

\* MarkovChain._apply_temperature, for a temperature <<n, d>> = n/d whose
\* inverse is a whole number when it is positive; 0.0 / 0.0 is nan
_apply_temperature(probs, temperature) ==
    IF temperature[1] > 0
    THEN LET scaled == [i \in DOMAIN probs |-> Power(probs[i].v, temperature)]
             total == FracSum(scaled)
         IN [i \in DOMAIN probs |->
                [k |-> probs[i].k,
                 v |-> IF total = Zero THEN NaN ELSE FracDiv(scaled[i], total)]]
    ELSE [i \in DOMAIN probs |->
             [k |-> probs[i].k, v |-> IF i = argmax(probs) THEN One ELSE Zero]]

RECURSIVE AllNextChords(_)
AllNextChords(probs) ==
    IF probs = <<>> THEN <<>>
    ELSE [j \in DOMAIN Head(probs).v |-> Head(probs).v[j].k] \o AllNextChords(Tail(probs))

RECURSIVE CounterOf(_, _)
\* Counter(items), continued from counter
CounterOf(counter, items) ==
    IF items = <<>> THEN counter
    ELSE CounterOf(CounterIncr(counter, Head(items)), Tail(items))

\* _get_global_frequencies finding no chord at all
_get_global_frequencies_empty == <<>>

\* MarkovChain._get_global_frequencies
_get_global_frequencies ==
    LET chord_counts == CounterOf(<<>>, AllNextChords(probabilities))
        total == SumValues(chord_counts)
    IN [i \in DOMAIN chord_counts |->
           [k |-> chord_counts[i].k, v |-> Frac(chord_counts[i].v, total)]]

\* MarkovChain._handle_unknown_state
_handle_unknown_state(state) ==
    IF Len(state) > 1 /\ HasKey(probabilities, Tail(state))
    THEN Get(probabilities, Tail(state))
    ELSE _get_global_frequencies

\* MarkovChain.get_possible_next
get_possible_next(state, temperature) ==
    IF ~HasKey(probabilities, state) THEN _handle_unknown_state(state)
    ELSE IF temperature # One
    THEN _apply_temperature(Get(probabilities, state), temperature)
    ELSE Get(probabilities, state)

Returned(chord) == [raised |-> FALSE, chord |-> chord]
Raised == [raised |-> TRUE, chord |-> None]

\* MarkovChain._weighted_choice: zip(*items) raises on an empty dict; a chord
\* of weight 0 is never drawn.  When the weights are nan, or sum to nothing,
\* random.choices raises ValueError from Python 3.9 on, and before that its
\* bisection ends on the last chord.
_weighted_choice(weighted_dict) ==
    IF weighted_dict = <<>> THEN {Raised}
    ELSE IF \/ \E i \in DOMAIN weighted_dict : weighted_dict[i].v = NaN
            \/ \A i \in DOMAIN weighted_dict : weighted_dict[i].v[1] = 0
    THEN {Raised, Returned(weighted_dict[Len(weighted_dict)].k)}
    ELSE {Returned(weighted_dict[i].k) :
              i \in {j \in DOMAIN weighted_dict : weighted_dict[j].v[1] > 0}}

common_chords == <<Cmaj7, Dm7, G7, Am7, Fmaj7, Em7, A7, Bm7b5>>

common_progressions ==
    << [k |-> <<"D", "m", "7">>, v |-> <<"G", "7">>],
       [k |-> <<"G", "7">>, v |-> <<"C", "m", "a", "j", "7">>],
       [k |-> <<"A", "m", "7">>, v |-> <<"D", "m", "7">>],
       [k |-> <<"E", "m", "7">>, v |-> <<"A", "7">>],
       [k |-> <<"A", "7">>, v |-> <<"D", "m", "7">>],
       [k |-> <<"B", "m", "7", "b", "5">>, v |-> <<"E", "7">>] >>

\* MarkovChain._get_random_diatonic_fallback: the chords it can return
_get_random_diatonic_fallback(previous_chord) ==
    IF /\ previous_chord # None
       /\ previous_chord \in Range(common_chords)
       /\ HasKey(common_progressions, ChordStr(previous_chord))
    THEN {_parse_chord_string(Get(common_progressions, ChordStr(previous_chord)))}
    ELSE Range(common_chords)

\* previous_chords taken whole, not cut to its last N chords
LastOrder_whole(previous_chords) == previous_chords

\* previous_chords[-self.order:]; with order 0 the slice [-0:] is the whole list
LastOrder(previous_chords) ==
    IF order = 0 THEN previous_chords
    ELSE SubSeq(previous_chords, Len(previous_chords) - order + 1, Len(previous_chords))

\* the first lines of predict_next and of predict_next_with_phrases: the
\* padded_chords they can go on with
Pads(previous_chords) ==
    IF Len(previous_chords) < order
    THEN _pad_sequence(previous_chords)
    ELSE {[ret |-> LastOrder(previous_chords), after |-> previous_chords]}

\* MarkovChain.predict_next: its outcomes [raised, chord, after], after being
\* the caller's previous_chords list once the call is over
predict_next(previous_chords, temperature) ==
    LET pads == Pads(previous_chords)
    IN UNION {
         LET state == p.ret
             candidates == get_possible_next(state, temperature)
             outcomes ==
                 IF candidates = <<>>
                 THEN {Returned(c) : c \in _get_random_diatonic_fallback(
                           IF p.after # <<>> THEN p.after[Len(p.after)] ELSE None)}
                 ELSE _weighted_choice(candidates)
         IN {[raised |-> o.raised, chord |-> o.chord, after |-> p.after] : o \in outcomes}
         : p \in pads}

RECURSIVE GenerateLoop(_, _, _)
\* the loop "while len(progression) < length" of generate_sequence
GenerateLoop(progression, length, temperature) ==
    IF Len(progression) >= length THEN {[raised |-> FALSE, progression |-> progression]}
    ELSE UNION {
           IF o.raised THEN {[raised |-> TRUE, progression |-> o.after]}
           ELSE GenerateLoop(Append(o.after, o.chord), length, temperature)
           : o \in predict_next(progression, temperature)}

\* MarkovChain.generate_sequence; start_sequence None and [] are both falsy
generate_sequence(length, temperature, start_sequence) ==
    LET seeds == IF start_sequence # <<>> THEN {start_sequence}
                 ELSE IF start_states # <<>> THEN Range(start_states)
                 ELSE {<<Cmaj7, Fmaj7>>}
    IN UNION {GenerateLoop(s, length, temperature) : s \in seeds}

\* PhraseAwareState(...): the class declares its fields but defines no
\* __init__ (it is no dataclass), so a call with arguments raises TypeError
PhraseAwareState(previous_chords, phrase_position, current_beat_strength, is_cadence, melody_note) ==
    [raised |-> TRUE]

\* PhraseAwareMarkovChain.predict_next_with_phrases
predict_next_with_phrases(previous_chords, phrase_context, temperature) ==
    LET pads == Pads(previous_chords)
    IN {LET enhanced_state == PhraseAwareState(p.ret, phrase_context.phrase_position,
                                  phrase_context.beat_strength, phrase_context.is_cadence,
                                  phrase_context.melody_note)
        IN [raised |-> enhanced_state.raised, chord |-> None, after |-> p.after]
        : p \in pads}

\* PhraseAwareMarkovChain._create_phrase_context_map: for the first note of a
\* phrase it reads phrase.analyzer, an attribute Phrase does not have, and
\* raises AttributeError; phrases without notes give the empty map
_create_phrase_context_map(phrases) ==
    IF \E i \in DOMAIN phrases : phrases[i].notes # <<>>
    THEN [raised |-> TRUE, context_map |-> <<>>]
    ELSE [raised |-> FALSE, context_map |-> <<>>]

RECURSIVE TrainWithPhrasesLoop(_, _, _)
\* the loop "for progression, phrases in zip(progressions, phrase_analyses)"
\* of train_with_phrases from its k-th pair on, and the call of
\* _compute_phrase_probabilities after it, a method no class defines
\* (AttributeError).  The first window of a progression raises at
\* PhraseAwareState(...), before anything is counted.
TrainWithPhrasesLoop(progressions, phrase_analyses, k) ==
    IF k > Len(progressions) \/ k > Len(phrase_analyses)
    THEN [raised |-> TRUE]
    ELSE LET progression == progressions[k]
             beat_to_phrase_context == _create_phrase_context_map(phrase_analyses[k])
         IN IF beat_to_phrase_context.raised THEN [raised |-> TRUE]
            ELSE IF Len(progression) - order > 0
            THEN LET state == SubSeq(progression, 1, order)
                     enhanced_state == PhraseAwareState(state, "middle", "WEAK", FALSE, None)
                 IN IF enhanced_state.raised THEN [raised |-> TRUE]
                    ELSE TrainWithPhrasesLoop(progressions, phrase_analyses, k + 1)
            ELSE TrainWithPhrasesLoop(progressions, phrase_analyses, k + 1)

\* PhraseAwareMarkovChain.train_with_phrases: whether it raised.  It never
\* calls train, and it raises before it writes to phrase_transitions or
\* cadence_progressions, so it leaves every table as it was.
train_with_phrases(progressions, phrase_analyses) ==
    TrainWithPhrasesLoop(progressions, phrase_analyses, 1)

-----------------------------------------------------------------------------
(* MarkovChain.save_model and load_model.  json writes a str and a float     *)
(* and reads the same str and float back, so model_data stands for the file. *)

\* [str(chord) for chord in state]
ChordStrs(state) == [i \in DOMAIN state |-> ChordStr(state[i])]

RECURSIVE StrProbs(_, _)
\* {str(chord): float(prob) for chord, prob in probs.items()}
StrProbs(result, probs) ==
    IF probs = <<>> THEN result
    ELSE StrProbs(Put(result, ChordStr(Head(probs).k), Head(probs).v), Tail(probs))

RECURSIVE StrTransitions(_, _)
\* the dict 'transitions' of save_model, a key being the list json.dumps writes
StrTransitions(result, probs) ==
    IF probs = <<>> THEN result
    ELSE StrTransitions(Put(result, ChordStrs(Head(probs).k), StrProbs(<<>>, Head(probs).v)),
                        Tail(probs))

\* MarkovChain.save_model: model_data
save_model(ord, probs, vocab, starts) ==
    [order |-> ord,
     transitions |-> StrTransitions(<<>>, probs),
     chord_vocab |-> {ChordStr(chord) : chord \in vocab},
     start_states |-> [i \in DOMAIN starts |-> ChordStrs(starts[i])]]

\* [self._parse_chord_string(chord_str) for chord_str in ...]
ParseChords(strs) == [i \in DOMAIN strs |-> _parse_chord_string(strs[i])]

RECURSIVE ParseProbs(_, _)
\* {self._parse_chord_string(chord_str): prob for chord_str, prob in probs.items()}
ParseProbs(result, probs) ==
    IF probs = <<>> THEN result
    ELSE ParseProbs(Put(result, _parse_chord_string(Head(probs).k), Head(probs).v),
                    Tail(probs))

RECURSIVE ParseTransitions(_, _)
\* the loop "for state_str, probs in model_data['transitions'].items()"
ParseTransitions(result, trans) ==
    IF trans = <<>> THEN result
    ELSE ParseTransitions(Put(result, ParseChords(Head(trans).k),
                              ParseProbs(<<>>, Head(trans).v)),
                          Tail(trans))

\* MarkovChain.load_model into a model whose start states are starts: the
\* fields of the model afterwards.  tuple(JazzChord) raises TypeError, a
\* JazzChord not being iterable, at the first chord of the first start state,
\* after order, _probabilities and chord_vocab have been assigned.
load_model(model_data, starts) ==
    LET raised == \E i \in DOMAIN model_data.start_states : model_data.start_states[i] # <<>>
    IN [raised |-> raised,
        order |-> model_data.order,
        probabilities |-> ParseTransitions(<<>>, model_data.transitions),
        chord_vocab |-> {_parse_chord_string(chord_str) : chord_str \in model_data.chord_vocab},
        start_states |-> IF raised THEN starts
                         ELSE [i \in DOMAIN model_data.start_states |-> <<>>]]

-----------------------------------------------------------------------------
(* PhraseAnalyzer.  Beat positions and durations are whole numbers of ticks, *)
(* TicksPerBeat ticks to the beat.                                          *)

\* PhraseAnalyzer.beats_per_bar, from the default time signature (4, 4)
beats_per_bar == 4

\* rest_threshold = 1.5 beats, as the fraction 3/2
rest_threshold == <<3, 2>>

Note(pitch, start_beat, duration) ==
    [pitch |-> pitch, start_beat |-> start_beat, duration |-> duration]

\* Note.end_beat
end_beat(note) == note.start_beat + note.duration

\* one step of the stable sort: note goes after the notes that start no later
InsertByStart(sorted_notes, note) ==
    LET before == SelectSeq(sorted_notes, LAMBDA n : n.start_beat <= note.start_beat)
        after == SelectSeq(sorted_notes, LAMBDA n : n.start_beat > note.start_beat)
    IN before \o <<note>> \o after

RECURSIVE SortLoop(_, _)
SortLoop(sorted_notes, notes) ==
    IF notes = <<>> THEN sorted_notes
    ELSE SortLoop(InsertByStart(sorted_notes, Head(notes)), Tail(notes))

\* sorted(notes, key=lambda x: x.start_beat): stable
sorted_by_start(notes) == SortLoop(<<>>, notes)

\* gap >= rest_threshold, gap in ticks
IsRest_strict(gap) == gap * rest_threshold[2] > rest_threshold[1] * TicksPerBeat

\* gap >= rest_threshold, gap in ticks
IsRest(gap) == gap * rest_threshold[2] >= rest_threshold[1] * TicksPerBeat

RECURSIVE DetectLoop(_, _, _, _)
\* the loop "for i, note in enumerate(notes)" of _detect_phrases_by_rests
DetectLoop(notes, i, phrases, current_phrase) ==
    IF i > Len(notes)
    THEN IF current_phrase # <<>> THEN Append(phrases, current_phrase) ELSE phrases
    ELSE LET note == notes[i]
             current == Append(current_phrase, note)
         IN IF i < Len(notes) /\ IsRest(notes[i + 1].start_beat - end_beat(note))
            THEN DetectLoop(notes, i + 1, Append(phrases, current), <<>>)
            ELSE DetectLoop(notes, i + 1, phrases, current)

\* PhraseAnalyzer._detect_phrases_by_rests
_detect_phrases_by_rests(notes, total_bars) == DetectLoop(notes, 1, <<>>, <<>>)

\* math.ceil(a / b) for whole a >= 0, b > 0
Ceil(a, b) == (a + b - 1) \div b

RECURSIVE DivideLoop_keep_empty(_, _, _, _, _)
\* DivideLoop without the test "if phrase_notes": empty windows are kept
DivideLoop_keep_empty(notes, i, num_phrases, phrase_length_beats, phrases) ==
    IF i >= num_phrases THEN phrases
    ELSE LET start_beat == i * phrase_length_beats * TicksPerBeat
             end == (i + 1) * phrase_length_beats * TicksPerBeat
             phrase_notes == SelectSeq(notes,
                                 LAMBDA n : start_beat <= n.start_beat /\ n.start_beat < end)
         IN DivideLoop_keep_empty(notes, i + 1, num_phrases, phrase_length_beats,
                                  Append(phrases, phrase_notes))

RECURSIVE DivideLoop(_, _, _, _, _)
\* the loop "for i in range(num_phrases)" of _divide_into_equal_phrases
DivideLoop(notes, i, num_phrases, phrase_length_beats, phrases) ==
    IF i >= num_phrases THEN phrases
    ELSE LET start_beat == i * phrase_length_beats * TicksPerBeat
             end == (i + 1) * phrase_length_beats * TicksPerBeat
             phrase_notes == SelectSeq(notes,
                                 LAMBDA n : start_beat <= n.start_beat /\ n.start_beat < end)
         IN DivideLoop(notes, i + 1, num_phrases, phrase_length_beats,
                       IF phrase_notes # <<>> THEN Append(phrases, phrase_notes) ELSE phrases)

\* PhraseAnalyzer._divide_into_equal_phrases
_divide_into_equal_phrases(notes, total_bars) ==
    LET phrase_length_bars == IF total_bars >= 8 THEN 4 ELSE 2
        phrase_length_beats == phrase_length_bars * beats_per_bar
        num_phrases == Ceil(total_bars, phrase_length_bars)
    IN DivideLoop(notes, 0, num_phrases, phrase_length_beats, <<>>)

\* PhraseAnalyzer._get_beat_strength
_get_beat_strength(beat_position) ==
    LET beat_in_bar == beat_position % (beats_per_bar * TicksPerBeat)
    IN IF beat_in_bar = 0 THEN "STRONG"
       ELSE IF 2 * beat_in_bar = beats_per_bar * TicksPerBeat THEN "MEDIUM"
       ELSE IF beat_in_bar % TicksPerBeat = 0 THEN "WEAK"
       ELSE "VERY_WEAK"

\* PhraseAnalyzer._find_strong_beat_notes
_find_strong_beat_notes(notes) ==
    SelectSeq(notes, LAMBDA n : _get_beat_strength(n.start_beat) \in {"STRONG", "MEDIUM"})

Min(S) == CHOOSE x \in S : \A y \in S : x <= y
Max(S) == CHOOSE x \in S : \A y \in S : y <= x

\* PhraseAnalyzer._analyze_single_phrase; length_bars is the fraction of
\* phrase ticks over the ticks of a bar.  An empty group raises ValueError.
_analyze_single_phrase(phrase_notes, total_bars) ==
    IF phrase_notes = <<>> THEN [raised |-> TRUE]
    ELSE LET start_beat == Min({phrase_notes[i].start_beat : i \in DOMAIN phrase_notes})
             end == Max({end_beat(phrase_notes[i]) : i \in DOMAIN phrase_notes})
         IN [raised |-> FALSE,
             notes |-> phrase_notes,
             start_beat |-> start_beat,
             end_beat |-> end,
             length_bars |-> Frac(end - start_beat, beats_per_bar * TicksPerBeat),
             cadence_note |-> phrase_notes[Len(phrase_notes)],
             strong_beat_notes |-> _find_strong_beat_notes(phrase_notes)]

\* PhraseAnalyzer.analyze_phrases: the list of Phrase it returns
analyze_phrases(notes, total_bars) ==
    IF notes = <<>> THEN <<>>
    ELSE LET sorted_notes == sorted_by_start(notes)
             by_rests == _detect_phrases_by_rests(sorted_notes, total_bars)
             phrases == IF Len(by_rests) <= 1
                        THEN _divide_into_equal_phrases(sorted_notes, total_bars)
                        ELSE by_rests
         IN [i \in DOMAIN phrases |-> _analyze_single_phrase(phrases[i], total_bars)]

\* Phrase.duration
PhraseDuration(phrase) == phrase.end_beat - phrase.start_beat

\* PhraseAnalyzer._get_strong_beats_in_phrase: the positions it collects
_get_strong_beats_in_phrase(phrase) ==
    {b \in phrase.start_beat..(phrase.end_beat - 1) :
        /\ (b - phrase.start_beat) % TicksPerBeat = 0
        /\ _get_beat_strength(b) \in {"STRONG", "MEDIUM"}}

RECURSIVE SortedSeq(_)
\* sorted(S) of a set of numbers
SortedSeq(S) == IF S = {} THEN <<>> ELSE <<Min(S)>> \o SortedSeq(S \ {Min(S)})

\* PhraseAnalyzer.get_chord_change_points
get_chord_change_points(phrases) ==
    LET starts == {phrases[i].start_beat : i \in DOMAIN phrases}
        strong == UNION {IF ~FracLess(phrases[i].length_bars, <<2, 1>>)
                         THEN _get_strong_beats_in_phrase(phrases[i]) ELSE {}
                         : i \in DOMAIN phrases}
        ending == IF phrases # <<>> THEN {phrases[Len(phrases)].end_beat} ELSE {}
    IN SortedSeq(starts \cup strong \cup ending)

-----------------------------------------------------------------------------
(* ScaleDetector: keys, scales and diatonic chords *)

note_indices ==
    << [k |-> <<"C">>, v |-> 0], [k |-> <<"C", "#">>, v |-> 1], [k |-> <<"D", "b">>, v |-> 1],
       [k |-> <<"D">>, v |-> 2], [k |-> <<"D", "#">>, v |-> 3], [k |-> <<"E", "b">>, v |-> 3],
       [k |-> <<"E">>, v |-> 4], [k |-> <<"F">>, v |-> 5], [k |-> <<"F", "#">>, v |-> 6],
       [k |-> <<"G", "b">>, v |-> 6], [k |-> <<"G">>, v |-> 7], [k |-> <<"G", "#">>, v |-> 8],
       [k |-> <<"A", "b">>, v |-> 8], [k |-> <<"A">>, v |-> 9], [k |-> <<"A", "#">>, v |-> 10],
       [k |-> <<"B", "b">>, v |-> 10], [k |-> <<"B">>, v |-> 11] >>

\* index_notes[i - 1] is the i-th name
index_notes ==
    << <<"C">>, <<"C", "#">>, <<"D">>, <<"E", "b">>, <<"E">>, <<"F">>,
       <<"F", "#">>, <<"G">>, <<"A", "b">>, <<"A">>, <<"B", "b">>, <<"B">> >>

scale_patterns ==
    << [k |-> "major", v |-> <<2, 2, 1, 2, 2, 2, 1>>],
       [k |-> "natural_minor", v |-> <<2, 1, 2, 2, 1, 2, 2>>],
       [k |-> "harmonic_minor", v |-> <<2, 1, 2, 2, 1, 3, 1>>],
       [k |-> "melodic_minor", v |-> <<2, 1, 2, 2, 2, 2, 1>>],
       [k |-> "dorian", v |-> <<2, 1, 2, 2, 2, 1, 2>>],
       [k |-> "mixolydian", v |-> <<2, 2, 1, 2, 2, 1, 2>>],
       [k |-> "lydian", v |-> <<2, 2, 2, 1, 2, 2, 1>>],
       [k |-> "phrygian", v |-> <<1, 2, 2, 2, 1, 2, 2>>],
       [k |-> "locrian", v |-> <<1, 2, 2, 1, 2, 2, 2>>],
       [k |-> "blues", v |-> <<3, 2, 1, 1, 3, 2>>] >>

dim7 == <<"d", "i", "m", "7">>

quality_map ==
    << [k |-> "major", v |-> <<maj7, m7, m7, maj7, dom7, m7, m7b5>>],
       [k |-> "natural_minor", v |-> <<m7, m7b5, maj7, m7, m7, maj7, dom7>>],
       [k |-> "dorian", v |-> <<m7, m7, maj7, dom7, m7, m7b5, maj7>>],
       [k |-> "mixolydian", v |-> <<dom7, m7, m7b5, maj7, m7, m7, maj7>>],
       [k |-> "lydian", v |-> <<maj7, dom7, m7, m7b5, maj7, m7, m7>>],
       [k |-> "melodic_minor", v |-> <<m7, m7, maj7, dom7, dom7, m7b5, m7b5>>],
       [k |-> "harmonic_minor", v |-> <<m7, m7b5, maj7, m7, dom7, maj7, dim7>>],
       [k |-> "blues", v |-> <<dom7, dom7, dom7, dom7, dom7, dom7, dom7>>] >>

Key(tonic, scale_type) == [tonic |-> tonic, scale_type |-> scale_type]

RECURSIVE DegreesLoop(_, _, _)
\* the loop "for interval in pattern" of get_scale_degrees
DegreesLoop(degrees, current, pattern) ==
    IF pattern = <<>> THEN degrees
    ELSE LET next == (current + Head(pattern)) % 12
         IN DegreesLoop(Append(degrees, next), next, Tail(pattern))

\* ScaleDetector.get_scale_degrees
get_scale_degrees(tonic, scale_type) ==
    DegreesLoop(<<tonic>>, tonic, Get(scale_patterns, scale_type))

\* s[:n]
Take(s, n) == SubSeq(s, 1, IF n < Len(s) THEN n ELSE Len(s))

\* ScaleDetector._get_chord_qualities_for_scale
_get_chord_qualities_for_scale(scale_type) ==
    IF HasKey(quality_map, scale_type) THEN Get(quality_map, scale_type)
    ELSE <<maj7, maj7, maj7, maj7, maj7, maj7, maj7>>

\* ScaleDetector.get_diatonic_chords
get_diatonic_chords(key) ==
    LET scale_degrees == Take(get_scale_degrees(Get(note_indices, key.tonic), key.scale_type), 7)
        chord_qualities == _get_chord_qualities_for_scale(key.scale_type)
    IN [i \in DOMAIN scale_degrees |->
           JazzChord(index_notes[scale_degrees[i] + 1], chord_qualities[i], <<>>)]

\* ScaleDetector.is_chord_in_key(chord, key, strict=True), for a chord whose
\* root is a key of note_indices
is_chord_in_key_strict(chord, key) ==
    LET chord_root_index == Get(note_indices, chord.root)
        scale_degrees == Take(get_scale_degrees(Get(note_indices, key.tonic), key.scale_type), 7)
        diatonic_chords == get_diatonic_chords(key)
    IN /\ chord_root_index \in Range(scale_degrees)
       /\ \E i \in DOMAIN diatonic_chords :
             /\ diatonic_chords[i].root = chord.root
             /\ diatonic_chords[i].quality = chord.quality

Abs(x) == IF x < 0 THEN -x ELSE x

\* the distance between two pitch classes as numbers, not around the circle
CircularDistance_linear(x, y) == Abs(x - y)

\* the circular distance in semitones between two pitch classes
CircularDistance(x, y) == IF Abs(x - y) < 12 - Abs(x - y) THEN Abs(x - y) ELSE 12 - Abs(x - y)

\* get_closest_diatonic_chord without its first test, is_chord_in_key: the
\* diatonic chord on the closest root is looked up for every chord
get_closest_diatonic_chord_search(chord, key) ==
    IF ~HasKey(note_indices, chord.root) THEN Raised
    ELSE LET chord_root_index == Get(note_indices, chord.root)
             scale_degrees ==
                 Take(get_scale_degrees(Get(note_indices, key.tonic), key.scale_type), 7)
             closest == CHOOSE i \in DOMAIN scale_degrees :
                 /\ \A j \in DOMAIN scale_degrees :
                       CircularDistance(scale_degrees[i], chord_root_index)
                           <= CircularDistance(scale_degrees[j], chord_root_index)
                 /\ \A j \in 1..(i - 1) :
                       CircularDistance(scale_degrees[j], chord_root_index)
                           > CircularDistance(scale_degrees[i], chord_root_index)
             closest_root == index_notes[scale_degrees[closest] + 1]
             diatonic_chords == get_diatonic_chords(key)
             hits == {i \in DOMAIN diatonic_chords : diatonic_chords[i].root = closest_root}
         IN IF hits # {} THEN Returned(diatonic_chords[Min(hits)])
            ELSE Returned(JazzChord(closest_root, maj7, <<>>))

\* ScaleDetector.get_closest_diatonic_chord: raised tells the KeyError of a
\* root that note_indices does not hold
get_closest_diatonic_chord(chord, key) ==
    IF ~HasKey(note_indices, chord.root) THEN Raised
    ELSE IF is_chord_in_key_strict(chord, key) THEN Returned(chord)
    ELSE LET chord_root_index == Get(note_indices, chord.root)
             scale_degrees ==
                 Take(get_scale_degrees(Get(note_indices, key.tonic), key.scale_type), 7)
             \* min(scale_degrees, key=...): the first of the closest
             closest == CHOOSE i \in DOMAIN scale_degrees :
                 /\ \A j \in DOMAIN scale_degrees :
                       CircularDistance(scale_degrees[i], chord_root_index)
                           <= CircularDistance(scale_degrees[j], chord_root_index)
                 /\ \A j \in 1..(i - 1) :
                       CircularDistance(scale_degrees[j], chord_root_index)
                           > CircularDistance(scale_degrees[i], chord_root_index)
             closest_root == index_notes[scale_degrees[closest] + 1]
             diatonic_chords == get_diatonic_chords(key)
             hits == {i \in DOMAIN diatonic_chords : diatonic_chords[i].root = closest_root}
         IN IF hits # {} THEN Returned(diatonic_chords[Min(hits)])
            ELSE Returned(JazzChord(closest_root, maj7, <<>>))

-----------------------------------------------------------------------------
(* ScaleDetector.detect_key, method "krumhansl".  A pitch is a str such as   *)
(* "C4"; the correlations are exact fractions.                               *)

Digits == <<"0", "1", "2", "3", "4", "5", "6", "7", "8", "9">>

\* c.isdigit()
isdigit(c) == \E i \in DOMAIN Digits : Digits[i] = c

RECURSIVE int(_)
\* int(s) of a str of digits
int(s) ==
    IF s = <<>> THEN 0
    ELSE 10 * int(SubSeq(s, 1, Len(s) - 1))
             + (CHOOSE i \in DOMAIN Digits : Digits[i] = s[Len(s)]) - 1

\* ScaleDetector._pitch_to_midi
_pitch_to_midi(pitch) ==
    LET note_name == SelectSeq(pitch, LAMBDA c : ~isdigit(c))
        octave == int(SelectSeq(pitch, isdigit))
        note_value == IF HasKey(note_indices, note_name) THEN Get(note_indices, note_name)
                      ELSE 0
    IN (octave + 1) * 12 + note_value

\* weight = int(note.duration * 2), the duration in ticks
Weight(note) == (2 * note.duration) \div TicksPerBeat

RECURSIVE _extract_pitch_classes(_)
\* ScaleDetector._extract_pitch_classes
_extract_pitch_classes(notes) ==
    IF notes = <<>> THEN <<>>
    ELSE LET pitch_class == _pitch_to_midi(Head(notes).pitch) % 12
         IN [i \in 1..Weight(Head(notes)) |-> pitch_class]
                \o _extract_pitch_classes(Tail(notes))

\* Krumhansl's key profiles, in hundredths
major_profile == <<635, 223, 348, 233, 438, 409, 252, 519, 239, 366, 229, 288>>
minor_profile == <<633, 268, 352, 538, 260, 353, 254, 475, 398, 269, 334, 317>>

RECURSIVE SumSeq(_)
SumSeq(xs) == IF xs = <<>> THEN 0 ELSE Head(xs) + SumSeq(Tail(xs))

\* [x / sum(profile) for x in profile], indexed from 0
Normalized(profile) == [i \in 0..11 |-> Frac(profile[i + 1], SumSeq(profile))]

\* ScaleDetector._get_pitch_class_distribution, indexed from 0
_get_pitch_class_distribution(pitch_classes) ==
    IF pitch_classes = <<>> THEN [i \in 0..11 |-> Zero]
    ELSE [i \in 0..11 |->
             Frac(Cardinality({j \in DOMAIN pitch_classes : pitch_classes[j] = i}),
                  Len(pitch_classes))]

\* _correlate_with_profile reading the profile without the shift
_correlate_with_profile_unshifted(distribution, profile, shift) ==
    FracSum([i \in 1..12 |-> FracMul(distribution[i - 1], profile[i - 1])])

\* ScaleDetector._correlate_with_profile
_correlate_with_profile(distribution, profile, shift) ==
    FracSum([i \in 1..12 |->
                FracMul(distribution[i - 1], profile[(i - 1 - shift + 12) % 12])])

\* the keys tested by the loop "for tonic in range(12)" of
\* _krumhansl_schmuckler, in the order tested: major then minor on each tonic
Candidates ==
    [c \in 1..24 |->
        [tonic |-> (c - 1) \div 2,
         profile |-> IF c % 2 = 1 THEN major_profile ELSE minor_profile,
         scale_type |-> IF c % 2 = 1 THEN "major" ELSE "natural_minor"]]

\* the candidate the loop ends on: best_correlation starts at -1.0, below
\* every correlation, and a candidate replaces the best one only when its
\* correlation is greater, so the first of the greatest is kept
BestCandidate(pc_distribution) ==
    LET corr(c) == _correlate_with_profile(pc_distribution,
                                           Normalized(Candidates[c].profile),
                                           Candidates[c].tonic)
    IN CHOOSE c \in 1..24 :
          /\ \A j \in 1..(c - 1) : FracLess(corr(j), corr(c))
          /\ \A j \in (c + 1)..24 : ~FracLess(corr(c), corr(j))

\* any(pc == n for pc in pitch_classes)
HasPitchClass(pitch_classes, n) == \E j \in DOMAIN pitch_classes : pitch_classes[j] = n

\* ScaleDetector._apply_jazz_preferences
_apply_jazz_preferences(detected_scale, pitch_classes) ==
    IF detected_scale = "natural_minor"
    THEN IF HasPitchClass(pitch_classes, 8) THEN "dorian"
         ELSE IF HasPitchClass(pitch_classes, 11) THEN "melodic_minor"
         ELSE IF HasPitchClass(pitch_classes, 3) /\ HasPitchClass(pitch_classes, 6)
              THEN "harmonic_minor"
         ELSE detected_scale
    ELSE IF detected_scale = "major"
    THEN IF HasPitchClass(pitch_classes, 6) THEN "lydian"
         ELSE IF HasPitchClass(pitch_classes, 10) THEN "mixolydian"
         ELSE detected_scale
    ELSE detected_scale

\* ScaleDetector._krumhansl_schmuckler: the Key it returns
_krumhansl_schmuckler(pitch_classes) ==
    LET pc_distribution == _get_pitch_class_distribution(pitch_classes)
        best == Candidates[BestCandidate(pc_distribution)]
    IN [tonic |-> index_notes[best.tonic + 1],
        scale_type |-> _apply_jazz_preferences(best.scale_type, pitch_classes),
        confidence |-> _correlate_with_profile(pc_distribution, Normalized(best.profile),
                                               best.tonic)]

\* ScaleDetector.detect_key with the default method
detect_key(notes) ==
    IF notes = <<>> THEN [tonic |-> <<"C">>, scale_type |-> "major", confidence |-> Zero]
    ELSE _krumhansl_schmuckler(_extract_pitch_classes(notes))

-----------------------------------------------------------------------------
(* The synthesis loops: JazzHarmonizer.harmonize_melody and                 *)
(* JazzChordGeneratorApp._generate_key_aware_progression                    *)

\* JazzHarmonizer._get_phrase_context_at_beat
_get_phrase_context_at_beat(phrases, beat) ==
    LET containing == {i \in DOMAIN phrases :
                          phrases[i].start_beat <= beat /\ beat < phrases[i].end_beat}
    IN IF containing = {}
       THEN [phrase_position |-> "middle", beat_strength |-> "WEAK", is_cadence |-> FALSE]
       ELSE LET phrase == phrases[Min(containing)]
                progress == beat - phrase.start_beat
            IN [phrase_position |->
                    IF 4 * progress < PhraseDuration(phrase) THEN "start"
                    ELSE IF 4 * progress > 3 * PhraseDuration(phrase) THEN "end"
                    ELSE "middle",
                beat_strength |-> _get_beat_strength(beat),
                is_cadence |-> /\ phrase = phrases[Len(phrases)]
                               /\ beat >= phrase.end_beat - 2 * TicksPerBeat]

\* self._get_melody_note_at_beat inside JazzHarmonizer: the class defines no
\* such method, so the attribute lookup raises AttributeError
JazzHarmonizer_get_melody_note_at_beat(melody_notes, beat) == [raised |-> TRUE]

\* JazzChordGeneratorApp._get_melody_note_at_beat; "" stands for None
_get_melody_note_at_beat(melody_notes, beat) ==
    LET sounding == {i \in DOMAIN melody_notes :
                        melody_notes[i].start_beat <= beat /\ beat < end_beat(melody_notes[i])}
    IN IF sounding = {} THEN "" ELSE melody_notes[Min(sounding)].pitch


RECURSIVE HarmonizeLoop(_, _, _, _, _, _)
\* the loop "for i, change_point in enumerate(chord_change_points)" of
\* harmonize_melody, i counted from 1
HarmonizeLoop(melody_notes, creativity, phrases, chord_change_points, i, progression) ==
    IF i > Len(chord_change_points) \/ i = Len(chord_change_points)
    THEN {[raised |-> FALSE, progression |-> progression]}
    ELSE LET change_point == chord_change_points[i]
             context == _get_phrase_context_at_beat(phrases, change_point)
             melody_note == JazzHarmonizer_get_melody_note_at_beat(melody_notes, change_point)
         IN IF melody_note.raised THEN {[raised |-> TRUE, progression |-> progression]}
            ELSE UNION {
                   IF o.raised THEN {[raised |-> TRUE, progression |-> progression]}
                   ELSE HarmonizeLoop(melody_notes, creativity, phrases, chord_change_points,
                            i + 1,
                            Append(progression,
                                   [start_beat |-> change_point, chord |-> o.chord,
                                    duration |-> chord_change_points[i + 1] - change_point]))
                   : o \in predict_next_with_phrases(
                               [j \in DOMAIN progression |-> progression[j].chord],
                               [phrase_position |-> context.phrase_position,
                                beat_strength |-> context.beat_strength,
                                is_cadence |-> context.is_cadence,
                                melody_note |-> melody_note],
                               FracAdd(<<1, 10>>, FracMul(creativity, <<19, 10>>)))}

\* the total_bars that analyze_phrases takes by default
DefaultTotalBars == 8

\* JazzHarmonizer.harmonize_melody: its outcomes [raised, progression],
\* progression being the entries appended before it returned or raised
harmonize_melody(melody_notes, creativity) ==
    LET phrases == analyze_phrases(melody_notes, DefaultTotalBars)
        chord_change_points == get_chord_change_points(phrases)
    IN HarmonizeLoop(melody_notes, creativity, phrases, chord_change_points, 1, <<>>)

\* JazzChordGeneratorApp._apply_key_constraints: random.random() lies in
\* [0, 1), so the chord is kept only if creativity > 0 and constrained only
\* if creativity < 1
_apply_key_constraints(chord, key, creativity) ==
    (IF creativity[1] > 0 THEN {Returned(chord)} ELSE {})
        \cup (IF FracLess(creativity, One) THEN {get_closest_diatonic_chord(chord, key)}
              ELSE {})

\* JazzChordGeneratorApp._ensure_melody_harmony
_ensure_melody_harmony(chord, melody_note) == chord

RECURSIVE KeyAwareLoop(_, _, _, _, _, _, _)
\* the loop "for i in range(len(change_points) - 1)" of
\* _generate_key_aware_progression, i counted from 1
KeyAwareLoop(melody_notes, change_points, creativity, current_key, i, progression, previous_chords) ==
    IF i > Len(change_points) - 1
    THEN {[raised |-> FALSE, progression |-> progression]}
    ELSE LET start_beat == change_points[i]
             duration == change_points[i + 1] - start_beat
             current_melody_note == _get_melody_note_at_beat(melody_notes, start_beat)
         IN UNION {
              IF o.raised THEN {[raised |-> TRUE, progression |-> progression]}
              ELSE UNION {
                     IF c.raised THEN {[raised |-> TRUE, progression |-> progression]}
                     ELSE LET final_chord == _ensure_melody_harmony(c.chord, current_melody_note)
                              appended == Append(o.after, final_chord)
                          IN KeyAwareLoop(melody_notes, change_points, creativity, current_key,
                                 i + 1,
                                 Append(progression,
                                        [start_beat |-> start_beat, chord |-> final_chord,
                                         duration |-> duration]),
                                 IF Len(appended) > order THEN LastOrder(appended)
                                 ELSE appended)
                     : c \in _apply_key_constraints(o.chord, current_key, creativity)}
              : o \in predict_next(previous_chords, creativity)}

\* JazzChordGeneratorApp._generate_key_aware_progression, self.current_key
\* being current_key: its outcomes [raised, progression]
_generate_key_aware_progression(melody_notes, change_points, creativity, current_key) ==
    KeyAwareLoop(melody_notes, change_points, creativity, current_key, 1, <<>>, <<>>)

-----------------------------------------------------------------------------
(* The inputs *)

MaxOrder == 2

\* the order JazzChordGeneratorApp and JazzHarmonizer build their chains with
AppOrder == 2

TrainChords == {Dm7, G7, Cmaj7}
HistChords == {Dm7, G7, Bm7b5}

SeqsUpTo(S, n) == UNION {[1..m -> S] : m \in 0..n}

Progressions == SeqsUpTo(TrainChords, MaxProgLen)
Corpora == SeqsUpTo(Progressions, MaxCorpus)
\* the progressions of the larger corpora: every one over two chords, and the ii-V-I
BatchChords == {Dm7, G7}
BatchProgressions == SeqsUpTo(BatchChords, MaxProgLen) \cup {<<Dm7, G7, Cmaj7>>}
TrainCorpora == SeqsUpTo(BatchProgressions, MaxTrainCorpus)
Histories == SeqsUpTo(HistChords, MaxHistLen)

\* temperatures n/d as <<n, d>>: negative, 0, 1e-5, 1/2 and 1
Temperatures == {<<-1, 1>>, <<0, 1>>, Tiny, <<1, 2>>, <<1, 1>>}

PhraseContexts ==
    [phrase_position : {"start", "middle", "end"}, beat_strength : {"STRONG", "WEAK"},
     is_cadence : BOOLEAN, melody_note : {"C4"}]

Notes == {Note("C4", s, d) : s \in 0..MaxStart, d \in 1..MaxDuration}
Melodies == SeqsUpTo(Notes, MaxNotes)
TotalBars == {2, 4, DefaultTotalBars}

\* two notes that tile eight bars with no rest, the first one split beats long
SplitBeats == (4 * beats_per_bar - 1)..(4 * beats_per_bar + 2)
EightBarMelodies ==
    {<<Note("C4", 0, k * TicksPerBeat),
       Note("C4", k * TicksPerBeat, (DefaultTotalBars * beats_per_bar - k) * TicksPerBeat)>>
        : k \in SplitBeats}

\* every key: the tonics note_indices names, with every ScaleType
ScaleTypes == {scale_patterns[i].k : i \in DOMAIN scale_patterns}
AllKeys == {Key(note_indices[i].k, scale_type) : i \in DOMAIN note_indices, scale_type \in ScaleTypes}

\* the chords handed to get_closest_diatonic_chord, bare and with a ninth
Qualities == {maj7, m7, dom7, m7b5, dim7}
QueryChords ==
    {JazzChord(note_indices[i].k, quality, extensions) :
        i \in DOMAIN note_indices, quality \in Qualities, extensions \in {<<>>, << <<"9">> >>}}

\* chords with up to two of the extensions 9 and 13, in either order
ExtensionLists ==
    {<<>>, << <<"9">> >>, << <<"1", "3">> >>, << <<"9">>, <<"1", "3">> >>,
     << <<"1", "3">>, <<"9">> >>}
ExtendedChords ==
    {JazzChord(root, quality, extensions) :
        root \in {<<"C">>, <<"G">>}, quality \in {dom7, m7}, extensions \in ExtensionLists}

\* the progressions of a model that is saved: with a ninth and a dim7 chord
G9 == JazzChord(<<"G">>, dom7, << <<"9">> >>)
Bdim7 == JazzChord(<<"B">>, dim7, <<>>)
SavedChords == {Dm7, G9, Bdim7}
SavedCorpora == SeqsUpTo(SeqsUpTo(SavedChords, MaxProgLen), MaxCorpus)

\* the melodies of key detection: up to MaxKeyNotes notes on the white keys,
\* and the C major scale played once, up or down, in notes of one length
ScalePitches ==
    << <<"C", "4">>, <<"D", "4">>, <<"E", "4">>, <<"F", "4">>, <<"G", "4">>,
       <<"A", "4">>, <<"B", "4">> >>
KeyNotes == {Note(ScalePitches[i], 0, d) : i \in DOMAIN ScalePitches, d \in 1..MaxDuration}
ScaleMelody(d) == [i \in DOMAIN ScalePitches |-> Note(ScalePitches[i], (i - 1) * d, d)]
DescendingScaleMelody(d) ==
    [i \in DOMAIN ScalePitches |->
        Note(ScalePitches[Len(ScalePitches) + 1 - i], (i - 1) * d, d)]
KeyMelodies ==
    SeqsUpTo(KeyNotes, MaxKeyNotes)
        \cup {ScaleMelody(d) : d \in 1..MaxDuration}
        \cup {DescendingScaleMelody(d) : d \in 1..MaxDuration}

\* one note two bars long, starting on beat 0, between beats, and on beat 1
OffBeatMelodies ==
    {<<Note("C4", s, 2 * beats_per_bar * TicksPerBeat)>> : s \in 0..TicksPerBeat}

\* melodies that reach past the second bar: one note on the first beat of the
\* third bar, alone and right after a note two bars long
LateMelodies ==
    {<<Note("C4", 2 * beats_per_bar * TicksPerBeat, TicksPerBeat)>>,
     <<Note("C4", 0, 2 * beats_per_bar * TicksPerBeat),
       Note("C4", 2 * beats_per_bar * TicksPerBeat, TicksPerBeat)>>}

\* the melodies of the synthesis loops: short notes, and one note two bars long
SynthStarts == {0, 3 * TicksPerBeat}
SynthNotes == {Note("C4", s, TicksPerBeat) : s \in SynthStarts}
LongNote == Note("C4", 0, 2 * beats_per_bar * TicksPerBeat)
SynthMelodies == SeqsUpTo(SynthNotes, MaxSynthNotes) \cup {<<LongNote>>}

\* CreativityLevel.BALANCED and EXPERIMENTAL, as fractions
Creativities == {<<1, 2>>, <<1, 1>>}

Keys == {Key(<<"C">>, "major"), Key(<<"A">>, "harmonic_minor")}

Dmaj7 == JazzChord(<<"D">>, maj7, <<>>)
D7 == JazzChord(<<"D">>, dom7, <<>>)
Gmaj7 == JazzChord(<<"G">>, maj7, <<>>)
Cm7 == JazzChord(<<"C">>, m7, <<>>)
F7 == JazzChord(<<"F">>, dom7, <<>>)
Bbmaj7 == JazzChord(<<"B", "b">>, maj7, <<>>)
Ebmaj7 == JazzChord(<<"E", "b">>, maj7, <<>>)
Am7b5 == JazzChord(<<"A">>, m7b5, <<>>)
Gm7 == JazzChord(<<"G">>, m7, <<>>)
C7 == JazzChord(<<"C">>, dom7, <<>>)

\* data_utils.create_sample_progressions
create_sample_progressions ==
    << <<Dm7, G7, Cmaj7>>,
       <<Em7, A7, Dmaj7>>,
       <<Am7, D7, Gmaj7>>,
       <<Cmaj7, A7, Dm7, G7>>,
       <<Cmaj7, A7, Dm7, G7>>,
       <<Cm7, F7, Bbmaj7, Ebmaj7>>,
       <<Am7b5, D7, Gm7>>,
       <<C7, F7, C7>>,
       <<G7, F7, C7>> >>

-----------------------------------------------------------------------------
(* The state machine: a MarkovChain object and its caller *)

NoCall == [op |-> "none"]

\* MarkovChain.__init__ / PhraseAwareMarkovChain.__init__
InitWith(melodies) ==
    /\ order \in 1..MaxOrder
    /\ transitions = <<>>
    /\ chord_vocab = {}
    /\ start_states = <<>>
    /\ probabilities = <<>>
    /\ phrase_transitions = <<>>
    /\ cadence_progressions = <<>>
    /\ trains = 0
    /\ melody \in melodies
    /\ last = NoCall

Init == InitWith({<<>>})

\* MarkovChain.train(progressions)
train(progressions) ==
    /\ transitions' = TrainCounts(transitions, progressions, order)
    /\ chord_vocab' = chord_vocab \cup VocabOf(progressions)
    /\ probabilities' = _compute_probabilities(transitions')
    /\ start_states' = _find_common_start_states(progressions, order)
    /\ UNCHANGED <<order, phrase_transitions, cadence_progressions>>

TrainFrom(corpora) ==
    /\ last.op = "none"
    /\ trains < MaxTrains
    /\ \E progressions \in corpora :
         /\ train(progressions)
         /\ last' = [op |-> "train", progressions |-> progressions]
    /\ trains' = trains + 1
    /\ UNCHANGED melody

Train == TrainFrom(Corpora)

\* train on corpora of several progressions
TrainBatch == TrainFrom(TrainCorpora)

\* PredictNext looking the state up in the defaultdict self.transitions, which
\* inserts a missing key
PredictNext_defaultdict ==
    /\ last.op = "none"
    /\ \E history \in Histories, temperature \in Temperatures :
         \E o \in predict_next(history, temperature) :
            /\ last' = [op |-> "predict_next", history |-> history,
                        temperature |-> temperature, raised |-> o.raised,
                        chord |-> o.chord, history_after |-> o.after]
            /\ transitions' = IF Len(history) = order /\ ~HasKey(transitions, history)
                              THEN Append(transitions, [k |-> history, v |-> <<>>])
                              ELSE transitions
    /\ UNCHANGED <<order, chord_vocab, start_states, probabilities,
                   phrase_transitions, cadence_progressions, trains, melody>>

PredictNext ==
    /\ last.op = "none"
    /\ \E history \in Histories, temperature \in Temperatures :
         \E o \in predict_next(history, temperature) :
            last' = [op |-> "predict_next", history |-> history,
                     temperature |-> temperature, raised |-> o.raised,
                     chord |-> o.chord, history_after |-> o.after]
    /\ UNCHANGED <<chain, trains, melody>>

GetPossibleNext ==
    /\ last.op = "none"
    /\ \E state \in Histories, temperature \in Temperatures :
         last' = [op |-> "get_possible_next", state |-> state,
                  temperature |-> temperature,
                  candidates |-> get_possible_next(state, temperature)]
    /\ UNCHANGED <<chain, trains, melody>>

GenerateSequence ==
    /\ last.op = "none"
    /\ \E length \in 1..MaxLength, temperature \in Temperatures,
          start_sequence \in Histories :
         \E o \in generate_sequence(length, temperature, start_sequence) :
            last' = [op |-> "generate_sequence", length |-> length,
                     temperature |-> temperature, start_sequence |-> start_sequence,
                     raised |-> o.raised, progression |-> o.progression]
    /\ UNCHANGED <<chain, trains, melody>>

PredictNextWithPhrases ==
    /\ last.op = "none"
    /\ \E history \in Histories, temperature \in Temperatures,
          phrase_context \in PhraseContexts :
         \E o \in predict_next_with_phrases(history, phrase_context, temperature) :
            last' = [op |-> "predict_next_with_phrases", history |-> history,
                     temperature |-> temperature, phrase_context |-> phrase_context,
                     raised |-> o.raised, chord |-> o.chord, history_after |-> o.after]
    /\ UNCHANGED <<chain, trains, melody>>

\* the caller takes the outcome and goes on to its next call
Return ==
    /\ last.op # "none"
    /\ last' = NoCall
    /\ UNCHANGED <<chain, trains, melody>>

Next ==
    \/ Train
    \/ PredictNext
    \/ GetPossibleNext
    \/ GenerateSequence
    \/ PredictNextWithPhrases
    \/ Return

Spec == Init /\ [][Next]_vars

\* training only, on larger corpora
NextTrain ==
    \/ TrainBatch
    \/ Return

SpecTrain == Init /\ [][NextTrain]_vars

-----------------------------------------------------------------------------
(* A phrase-aware model trained with phrases and asked for the next chord *)

\* the phrase lists handed to train_with_phrases, as analyze_phrases returns
\* them: of no notes, of one note, and of three notes a beat apart
PhraseLists ==
    {analyze_phrases(notes, DefaultTotalBars) :
        notes \in {<<>>, <<Note("C4", 0, TicksPerBeat)>>,
                   <<Note("C4", 0, TicksPerBeat), Note("D4", TicksPerBeat, TicksPerBeat),
                     Note("E4", 2 * TicksPerBeat, TicksPerBeat)>>}}
PhraseAnalyses == SeqsUpTo(PhraseLists, MaxTrainCorpus)

TrainWithPhrases ==
    /\ last.op = "none"
    /\ \E progressions \in TrainCorpora, phrase_analyses \in PhraseAnalyses :
         last' = [op |-> "train_with_phrases", progressions |-> progressions,
                  phrase_analyses |-> phrase_analyses,
                  raised |-> train_with_phrases(progressions, phrase_analyses).raised]
    /\ UNCHANGED <<chain, trains, melody>>

NextPhrase ==
    \/ TrainWithPhrases
    \/ PredictNextWithPhrases
    \/ PredictNext
    \/ Return

SpecPhrase == Init /\ [][NextPhrase]_vars

-----------------------------------------------------------------------------
(* A model trained on small corpora and on a corpus with more distinct       *)
(* opening windows than start states are kept, and asked for the next chord  *)

\* eleven progressions, each opening on a chord of its own
ManyStartChords == <<Dm7, G7, Cmaj7, Am7, Fmaj7, Em7, A7, Bm7b5, E7, Dmaj7, D7>>
ManyStarts == [i \in DOMAIN ManyStartChords |-> <<ManyStartChords[i], G7, Cmaj7>>]

TrainManyStarts == TrainFrom({ManyStarts})

NextShape ==
    \/ Train
    \/ TrainManyStarts
    \/ PredictNext
    \/ Return

SpecShape == Init /\ [][NextShape]_vars

-----------------------------------------------------------------------------
(* The phrase segmenter applied to a melody *)

InitSeg ==
    InitWith(Melodies \cup EightBarMelodies \cup OffBeatMelodies \cup LateMelodies)
        /\ order = AppOrder

AnalyzePhrases ==
    /\ last.op = "none"
    /\ \E total_bars \in TotalBars :
         last' = [op |-> "analyze_phrases", total_bars |-> total_bars,
                  phrases |-> analyze_phrases(melody, total_bars)]
    /\ UNCHANGED <<chain, trains, melody>>

\* get_chord_change_points on the phrases analyze_phrases returned
GetChordChangePoints ==
    /\ last.op = "analyze_phrases"
    /\ last' = [op |-> "get_chord_change_points", total_bars |-> last.total_bars,
                phrases |-> last.phrases,
                change_points |-> get_chord_change_points(last.phrases)]
    /\ UNCHANGED <<chain, trains, melody>>

NextSeg ==
    \/ AnalyzePhrases
    \/ GetChordChangePoints
    \/ Return

SpecSeg == InitSeg /\ [][NextSeg]_vars

-----------------------------------------------------------------------------
(* Key detection applied to a melody *)

InitKey == InitWith(KeyMelodies) /\ order = AppOrder

DetectKey ==
    /\ last.op = "none"
    /\ last' = [op |-> "detect_key", key |-> detect_key(melody)]
    /\ UNCHANGED <<chain, trains, melody>>

NextKey ==
    \/ DetectKey
    \/ Return

SpecKey == InitKey /\ [][NextKey]_vars

-----------------------------------------------------------------------------
(* The nearest diatonic chord of a chord in a key *)

InitDiatonic == InitWith({<<>>}) /\ order = AppOrder

GetClosestDiatonicChord ==
    /\ last.op = "none"
    /\ \E chord \in QueryChords, key \in AllKeys :
         last' = [op |-> "get_closest_diatonic_chord", chord |-> chord, key |-> key,
                  result |-> get_closest_diatonic_chord(chord, key)]
    /\ UNCHANGED <<chain, trains, melody>>

GetScaleDegrees ==
    /\ last.op = "none"
    /\ \E tonic \in 0..11, scale_type \in ScaleTypes :
         last' = [op |-> "get_scale_degrees", tonic |-> tonic, scale_type |-> scale_type,
                  degrees |-> get_scale_degrees(tonic, scale_type)]
    /\ UNCHANGED <<chain, trains, melody>>

GetDiatonicChords ==
    /\ last.op = "none"
    /\ \E key \in AllKeys :
         last' = [op |-> "get_diatonic_chords", key |-> key,
                  chords |-> get_diatonic_chords(key)]
    /\ UNCHANGED <<chain, trains, melody>>

NextDiatonic ==
    \/ GetClosestDiatonicChord
    \/ GetScaleDegrees
    \/ GetDiatonicChords
    \/ Return

SpecDiatonic == InitDiatonic /\ [][NextDiatonic]_vars

-----------------------------------------------------------------------------
(* Two chords compared and hashed, as a dict does with its keys *)

CompareChords ==
    /\ last.op = "none"
    /\ \E self \in ExtendedChords, other \in ExtendedChords :
         last' = [op |-> "compare", self |-> self, other |-> other,
                  eq |-> __eq__(self, other),
                  hashes |-> <<__hash__(self), __hash__(other)>>]
    /\ UNCHANGED <<chain, trains, melody>>

NextChord ==
    \/ CompareChords
    \/ Return

SpecChord == InitDiatonic /\ [][NextChord]_vars

-----------------------------------------------------------------------------
(* A model trained, saved, and loaded into a new model *)

TrainSaved == TrainFrom(SavedCorpora)

\* save_model, then MarkovChain().load_model of the file
SaveLoad ==
    /\ last.op = "none"
    /\ last' = [op |-> "load_model",
                model_data |-> save_model(order, probabilities, chord_vocab, start_states),
                loaded |-> load_model(save_model(order, probabilities, chord_vocab,
                                                 start_states), <<>>)]
    /\ UNCHANGED <<chain, trains, melody>>

NextSave ==
    \/ TrainSaved
    \/ SaveLoad
    \/ Return

SpecSave == Init /\ [][NextSave]_vars

-----------------------------------------------------------------------------
(* Models constructed with any order from 0 up.  __init__ stores the order  *)
(* it is given and tests nothing, so MarkovChain(order=0) is such a model.   *)

InitConfig ==
    /\ order \in 0..MaxOrder
    /\ transitions = <<>>
    /\ chord_vocab = {}
    /\ start_states = <<>>
    /\ probabilities = <<>>
    /\ phrase_transitions = <<>>
    /\ cadence_progressions = <<>>
    /\ trains = 0
    /\ melody = <<>>
    /\ last = NoCall

NextConfig ==
    \/ Train
    \/ PredictNext
    \/ GetPossibleNext
    \/ Return

SpecConfig == InitConfig /\ [][NextConfig]_vars

-----------------------------------------------------------------------------
(* The synthesis loops applied to a melody *)

InitSynth == InitWith(SynthMelodies) /\ order = AppOrder

\* JazzChordGeneratorApp.train_model with the sample data
TrainSamples == TrainFrom({create_sample_progressions})

HarmonizeMelody ==
    /\ last.op = "none"
    /\ \E creativity \in Creativities :
         \E o \in harmonize_melody(melody, creativity) :
            last' = [op |-> "harmonize_melody", creativity |-> creativity,
                     change_points |->
                         get_chord_change_points(analyze_phrases(melody, DefaultTotalBars)),
                     raised |-> o.raised, progression |-> o.progression]
    /\ UNCHANGED <<chain, trains, melody>>

\* process_user_melody from its phrase analysis on: the change points of the
\* melody handed to _generate_key_aware_progression
GenerateKeyAwareProgression ==
    /\ last.op = "none"
    /\ \E creativity \in Creativities, current_key \in Keys :
         LET phrases == analyze_phrases(melody, DefaultTotalBars)
             change_points == get_chord_change_points(phrases)
         IN \E o \in _generate_key_aware_progression(melody, change_points, creativity,
                                                       current_key) :
               last' = [op |-> "generate_key_aware_progression", creativity |-> creativity,
                        current_key |-> current_key, change_points |-> change_points,
                        raised |-> o.raised, progression |-> o.progression]
    /\ UNCHANGED <<chain, trains, melody>>

NextSynth ==
    \/ TrainSamples
    \/ HarmonizeMelody
    \/ GenerateKeyAwareProgression
    \/ Return

SpecSynth == InitSynth /\ [][NextSynth]_vars

-----------------------------------------------------------------------------
(* The Markov chain's claims *)

\* every window of N training chords
AllStates == [1..order -> TrainChords]

\* transitions[state][chord], 0 where there is no such entry
CountOf(trans, state, chord) ==
    IF HasKey(trans, state) /\ HasKey(Get(trans, state), chord)
    THEN Get(Get(trans, state), chord)
    ELSE 0

\* the places (progression, index) of the progressions where a window of N
\* chords is followed by one more chord
Windows(progressions) ==
    {pos \in (DOMAIN progressions) \X (1..MaxProgLen) :
        pos[2] + order <= Len(progressions[pos[1]])}

WindowAt(progressions, pos) == SubSeq(progressions[pos[1]], pos[2], pos[2] + order - 1)
NextAt(progressions, pos) == progressions[pos[1]][pos[2] + order]

\* the number of places of the progressions where the window state is followed by chord
Occurrences(progressions, state, chord) ==
    Cardinality({pos \in Windows(progressions) :
        WindowAt(progressions, pos) = state /\ NextAt(progressions, pos) = chord})

\* the (state, chord) entries of a transition table
Entries(trans) ==
    UNION {{<<trans[i].k, trans[i].v[j].k>> : j \in DOMAIN trans[i].v} : i \in DOMAIN trans}

\* C1: a train call adds to the count of every (window of N chords, chord after
\* it) the number of its occurrences in the progressions, neither more nor
\* less; every state's probabilities are count / (sum of the state's counts);
\* a fresh order-2 model trained on [Dm7, G7, Cmaj7] holds exactly the state
\* (Dm7, G7) with {Cmaj7: 1.0}; progressions shorter than N+1 add nothing.
C1_TrainCountsEveryWindow ==
    [][last'.op = "train" =>
        LET progressions == last'.progressions
        IN /\ Entries(transitions') =
                 Entries(transitions)
                     \cup {<<WindowAt(progressions, pos), NextAt(progressions, pos)>> :
                              pos \in Windows(progressions)}
           /\ \A e \in Entries(transitions') :
                 /\ CountOf(transitions', e[1], e[2]) =
                        CountOf(transitions, e[1], e[2])
                            + Occurrences(progressions, e[1], e[2])
                 /\ CountOf(transitions', e[1], e[2]) >= 1
           /\ DictKeys(transitions') \subseteq AllStates
           /\ DictKeys(probabilities') = DictKeys(transitions')
           /\ \A state \in DictKeys(transitions') :
                 LET counter == Get(transitions', state)
                     dist == Get(probabilities', state)
                 IN /\ DictKeys(dist) = DictKeys(counter)
                    /\ \A chord \in DictKeys(counter) :
                          Get(dist, chord)[1] * SumValues(counter)
                              = Get(counter, chord) * Get(dist, chord)[2]
           /\ (trains = 0 /\ order = 2 /\ progressions = << <<Dm7, G7, Cmaj7>> >>)
                 => probabilities' = << [k |-> <<Dm7, G7>>,
                                         v |-> << [k |-> Cmaj7, v |-> One] >>] >>
           /\ (\A j \in DOMAIN progressions : Len(progressions[j]) < order + 1)
                 => transitions' = transitions
    ]_vars

C1_Witness ==
    /\ last.op = "train"
    /\ trains = 1
    /\ order = 2
    /\ last.progressions = << <<Dm7, G7, Cmaj7>> >>
    /\ probabilities = << [k |-> <<Dm7, G7>>, v |-> << [k |-> Cmaj7, v |-> One] >>] >>

\* C2: every state of the probability table has a distribution that is not
\* empty, whose probabilities are all > 0 and sum to 1.
C2_DistributionsSumToOne ==
    \A i \in DOMAIN probabilities :
        LET dist == probabilities[i].v
        IN /\ dist # <<>>
           /\ \A j \in DOMAIN dist : dist[j].v[1] > 0 /\ dist[j].v[2] > 0
           /\ FracSum([j \in DOMAIN dist |-> dist[j].v]) = One

C2_Witness ==
    /\ trains = 2
    /\ \E i \in DOMAIN probabilities :
          LET dist == probabilities[i].v
          IN Len(dist) = 2 /\ dist[1].v = <<2, 3>> /\ dist[2].v = <<1, 3>>

\* C3 (as claimed): predict_next returns a chord and does not raise, for every
\* history (empty, shorter than N, ending in an unseen state) and every
\* temperature >= 0, on every model that train calls can produce.
C3_PredictNextNeverRaises ==
    /\ last.op = "none" =>
          \A history \in Histories, temperature \in Temperatures :
              temperature[1] >= 0 => predict_next(history, temperature) # {}
    /\ (last.op = "predict_next" /\ last.temperature[1] >= 0) =>
          ~last.raised /\ last.chord # None

\* C4 (as claimed): generate_sequence(L) with L >= N and no start sequence, or
\* one of at most L chords, returns exactly L chords.
C4_GenerateReturnsExactlyL ==
    (/\ last.op = "generate_sequence"
     /\ last.temperature[1] >= 0
     /\ last.length >= order
     /\ Len(last.start_sequence) <= last.length)
        => ~last.raised /\ Len(last.progression) = last.length

\* the distribution predict_next draws from for a state: the state's own, or
\* the one the fallback chain reaches
SelectedDistribution(state) ==
    IF HasKey(probabilities, state) THEN Get(probabilities, state)
    ELSE _handle_unknown_state(state)

\* C5 (as claimed): on a trained model predict_next with temperature 0 returns
\* the first chord of maximal probability of the distribution selected for
\* the history, be it the state's own or a fallback's.
C5_TemperatureZeroIsArgmax ==
    (last.op = "predict_next" /\ last.temperature = Zero /\ probabilities # <<>>)
        => \E p \in Pads(last.history) :
              LET dist == SelectedDistribution(p.ret)
              IN dist # <<>> /\ last.chord = dist[argmax(dist)].k

\* C6 (as claimed): on a model without states predict_next returns one of
\* the eight curated chords.
C6_FallbackInCuratedSet ==
    (last.op = "predict_next" /\ last.temperature[1] >= 0 /\ probabilities = <<>>)
        => ~last.raised /\ last.chord \in Range(common_chords)

\* C6 (amended): on a model without states predict_next returns one of the
\* eight curated chords, or E7 when the history ends in Bm7b5.
C6_FallbackInCuratedSetOrE7 ==
    (last.op = "predict_next" /\ probabilities = <<>>)
        => /\ ~last.raised
           /\ \/ last.chord \in Range(common_chords)
              \/ /\ last.chord = E7
                 /\ last.history # <<>>
                 /\ last.history[Len(last.history)] = Bm7b5

C6_Witness ==
    /\ last.op = "predict_next"
    /\ trains = 1
    /\ probabilities = <<>>
    /\ last.history = <<Dm7, Bm7b5>>
    /\ last.chord = E7

\* dict equality: the same keys with the same values, in any order
DictEq(d1, d2) ==
    /\ DictKeys(d1) = DictKeys(d2)
    /\ \A key \in DictKeys(d1) : Get(d1, key) = Get(d2, key)

TableEq(t1, t2) ==
    /\ DictKeys(t1) = DictKeys(t2)
    /\ \A key \in DictKeys(t1) : DictEq(Get(t1, key), Get(t2, key))

\* C7 (as claimed): after a train call the probability table and the start
\* states are those of a fresh model of the same order trained on that
\* call's progressions alone.
C7_RetrainReplaces ==
    last.op = "train" =>
        /\ TableEq(probabilities,
                   _compute_probabilities(TrainCounts(<<>>, last.progressions, order)))
        /\ start_states = _find_common_start_states(last.progressions, order)

QueryOps ==
    {"predict_next", "get_possible_next", "generate_sequence", "predict_next_with_phrases"}

\* C8: on a trained model a call of predict_next, get_possible_next,
\* generate_sequence or predict_next_with_phrases leaves the order, the
\* transition counts, the probability table, the phrase and cadence tables and
\* the start states as they were.
C8_QueriesLeaveModelUnchanged ==
    [][(trains >= 1 /\ last'.op \in QueryOps) => UNCHANGED chain]_vars

C8_Witness ==
    /\ trains >= 1
    /\ transitions # <<>>
    /\ last.op = "generate_sequence"
    /\ Len(last.start_sequence) = order
    /\ ~HasKey(probabilities, last.start_sequence)
    /\ Len(last.progression) = MaxLength

-----------------------------------------------------------------------------
(* The synthesis loops' and the segmenter's claims *)

SynthOps == {"harmonize_melody", "generate_key_aware_progression"}

\* C9 (as claimed): for a melody with change points p_0 < ... < p_k either
\* synthesis loop returns exactly k entries, the i-th starting at p_i and
\* lasting p_{i+1} - p_i > 0, so that no entry starts at p_k and the
\* durations sum to p_k - p_0.
C9_SynthesizeTilesChangePoints ==
    (last.op \in SynthOps /\ last.change_points # <<>>) =>
        LET p == last.change_points
            entries == last.progression
        IN /\ ~last.raised
           /\ Len(entries) = Len(p) - 1
           /\ \A i \in DOMAIN entries :
                 /\ entries[i].start_beat = p[i]
                 /\ entries[i].duration = p[i + 1] - p[i]
                 /\ entries[i].duration > 0

\* the notes of the phrases, one after another
RECURSIVE Flatten(_)
Flatten(phrases) ==
    IF phrases = <<>> THEN <<>> ELSE Head(phrases).notes \o Flatten(Tail(phrases))

\* the gap after the j-th of the notes is a rest of at least 1.5 beats
RestAfter(notes, j) ==
    2 * (notes[j + 1].start_beat - (notes[j].start_beat + notes[j].duration))
        >= 3 * TicksPerBeat

\* the positions of the notes that end a phrase, the phrases laid end to end
RECURSIVE PhraseEnds(_, _)
PhraseEnds(phrases, offset) ==
    IF phrases = <<>> THEN {}
    ELSE {offset + Len(Head(phrases).notes)}
             \cup PhraseEnds(Tail(phrases), offset + Len(Head(phrases).notes))

\* C10: when the melody sorted by start_beat has a gap of at least 1.5 beats
\* between two consecutive notes, the phrases' notes laid end to end are the
\* sorted melody, no phrase is empty, and a phrase ends after a note exactly
\* where the gap after it is at least 1.5 beats (and after the last note);
\* two notes separated by a rest of 2.0 beats give two phrases of one note.
C10_RestSplitAtEveryGap ==
    (/\ last.op = "analyze_phrases"
     /\ \E j \in 1..(Len(melody) - 1) : RestAfter(sorted_by_start(melody), j))
        => LET notes == Flatten(last.phrases)
           IN /\ notes = sorted_by_start(melody)
              /\ \A j \in 1..(Len(notes) - 1) : notes[j].start_beat <= notes[j + 1].start_beat
              /\ \A note \in Range(melody) :
                    Cardinality({j \in DOMAIN notes : notes[j] = note})
                        = Cardinality({j \in DOMAIN melody : melody[j] = note})
              /\ \A i \in DOMAIN last.phrases :
                    ~last.phrases[i].raised /\ last.phrases[i].notes # <<>>
              /\ PhraseEnds(last.phrases, 0)
                    = {j \in 1..(Len(notes) - 1) : RestAfter(notes, j)} \cup {Len(notes)}
              /\ (Len(melody) = 2
                      /\ melody[2].start_beat - (melody[1].start_beat + melody[1].duration)
                             = 2 * TicksPerBeat)
                    => /\ Len(last.phrases) = 2
                       /\ last.phrases[1].notes = <<melody[1]>>
                       /\ last.phrases[2].notes = <<melody[2]>>

C10_Witness ==
    /\ last.op = "analyze_phrases"
    /\ Len(melody) = 3
    /\ melody[1].start_beat > melody[2].start_beat
    /\ melody[3].start_beat - (melody[1].start_beat + melody[1].duration) = 2 * TicksPerBeat
    /\ Len(last.phrases) = 2
    /\ Len(last.phrases[1].notes) = 2
    /\ last.phrases[2].notes = <<melody[3]>>

\* no gap between consecutive notes of the sorted melody is a rest
NoRest(notes) == \A j \in 1..(Len(notes) - 1) : ~RestAfter(sorted_by_start(notes), j)

\* the melody starts at beat 0 and ends at the end of the eighth bar
EightBarInput(notes) ==
    /\ notes # <<>>
    /\ \A i \in DOMAIN notes : notes[i].start_beat >= 0
    /\ \E i \in DOMAIN notes : notes[i].start_beat = 0
    /\ \A i \in DOMAIN notes :
          end_beat(notes[i]) <= DefaultTotalBars * beats_per_bar * TicksPerBeat
    /\ \E i \in DOMAIN notes :
          end_beat(notes[i]) = DefaultTotalBars * beats_per_bar * TicksPerBeat

\* C11 (as claimed): with no gap of at least 1.5 beats between consecutive
\* notes and total_bars = 8, every phrase returned has length_bars = 4, and an
\* eight-bar melody gives two phrases.
C11_EqualDivisionFourBars ==
    (/\ last.op = "analyze_phrases"
     /\ last.total_bars = DefaultTotalBars
     /\ NoRest(melody))
        => /\ \A i \in DOMAIN last.phrases :
                 /\ ~last.phrases[i].raised
                 /\ last.phrases[i].length_bars = <<4, 1>>
           /\ EightBarInput(melody) => Len(last.phrases) = 2

\* position b, in ticks, is a strong or a medium beat of its bar
StrongOrMedium(b) ==
    \/ b % (beats_per_bar * TicksPerBeat) = 0
    \/ 2 * (b % (beats_per_bar * TicksPerBeat)) = beats_per_bar * TicksPerBeat

\* C12 (as claimed): get_chord_change_points returns the ascending list, free
\* of duplicates, of every phrase's start_beat, of every strong or medium beat
\* position b with start_beat <= b < end_beat of every phrase of at least two
\* bars, whether the phrase starts on a beat or between beats, and of the last
\* phrase's end_beat.
C12_ChangePointsAreStartsStrongBeatsAndEnd ==
    last.op = "get_chord_change_points"
        => LET phrases == last.phrases
               starts == {phrases[i].start_beat : i \in DOMAIN phrases}
               strong == {b \in 0..(DefaultTotalBars * beats_per_bar * TicksPerBeat) :
                             /\ StrongOrMedium(b)
                             /\ \E i \in DOMAIN phrases :
                                   /\ phrases[i].end_beat - phrases[i].start_beat
                                          >= 2 * beats_per_bar * TicksPerBeat
                                   /\ phrases[i].start_beat <= b
                                   /\ b < phrases[i].end_beat}
               ending == IF phrases = <<>> THEN {} ELSE {phrases[Len(phrases)].end_beat}
           IN /\ last.change_points = SortedSeq(starts \cup strong \cup ending)
              /\ \A j \in 1..(Len(last.change_points) - 1) :
                    last.change_points[j] < last.change_points[j + 1]

\* C13: every Phrase returned by analyze_phrases for a non-empty melody, by
\* rests or by equal division, was built without the empty-phrase error, has
\* at least one note, starts at the least start_beat and ends at the greatest
\* end_beat of its notes, has duration = end_beat - start_beat > 0, and has as
\* cadence_note the last of its notes, which are in start_beat order.
C13_PhraseBoundsFromNotes ==
    (last.op = "analyze_phrases" /\ melody # <<>>)
        => \A i \in DOMAIN last.phrases :
              LET phrase == last.phrases[i]
              IN /\ ~phrase.raised
                 /\ Len(phrase.notes) >= 1
                 /\ \A j \in DOMAIN phrase.notes :
                       /\ phrase.notes[j] \in Range(melody)
                       /\ phrase.start_beat <= phrase.notes[j].start_beat
                       /\ end_beat(phrase.notes[j]) <= phrase.end_beat
                 /\ \E j \in DOMAIN phrase.notes :
                       phrase.notes[j].start_beat = phrase.start_beat
                 /\ \E j \in DOMAIN phrase.notes :
                       end_beat(phrase.notes[j]) = phrase.end_beat
                 /\ PhraseDuration(phrase) = phrase.end_beat - phrase.start_beat
                 /\ PhraseDuration(phrase) > 0
                 /\ \A j \in 1..(Len(phrase.notes) - 1) :
                       phrase.notes[j].start_beat <= phrase.notes[j + 1].start_beat
                 /\ phrase.cadence_note = phrase.notes[Len(phrase.notes)]

\* equal division of an unsorted melody whose eight bars have an empty second
\* half; the phrase ends later than its cadence note does
C13_Witness ==
    /\ last.op = "analyze_phrases"
    /\ last.total_bars = DefaultTotalBars
    /\ NoRest(melody)
    /\ Len(melody) = 3
    /\ melody[1].start_beat > melody[3].start_beat
    /\ Len(last.phrases) = 1
    /\ Len(last.phrases[1].notes) = 3
    /\ end_beat(last.phrases[1].cadence_note) < last.phrases[1].end_beat

-----------------------------------------------------------------------------
(* The key detector's claims *)

\* the pitch classes of the C major scale
CMajorPitchClasses == {0, 2, 4, 5, 7, 9, 11}

\* the weight the notes give to pitch class pc
WeightOf(notes, pc) ==
    Cardinality({j \in DOMAIN _extract_pitch_classes(notes) :
                    _extract_pitch_classes(notes)[j] = pc})

\* the correlation of the melody with the profile of the key on tonic
CorrelationOf(notes, profile, tonic) ==
    _correlate_with_profile(_get_pitch_class_distribution(_extract_pitch_classes(notes)),
                            Normalized(profile), tonic)

\* detect_key answered C major, and (C, major) correlates strictly better
\* than each of the other 23 pairs of tonic and profile
CMajorWins ==
    /\ last.key.tonic = <<"C">>
    /\ last.key.scale_type = "major"
    /\ \A tonic \in 0..11 :
          /\ tonic # 0 => FracLess(CorrelationOf(melody, major_profile, tonic),
                                   CorrelationOf(melody, major_profile, 0))
          /\ FracLess(CorrelationOf(melody, minor_profile, tonic),
                      CorrelationOf(melody, major_profile, 0))

\* C14 (as claimed): detect_key on a non-empty melody whose notes use only
\* the pitch classes C, D, E, F, G, A, B answers C major, with a correlation
\* strictly greater than that of each of the other 23 keys.
C14_WhiteKeysGiveCMajor ==
    (/\ last.op = "detect_key"
     /\ melody # <<>>
     /\ \A j \in DOMAIN melody : (_pitch_to_midi(melody[j].pitch) % 12) \in CMajorPitchClasses)
        => CMajorWins

\* C14 (amended): detect_key on a melody that gives every one of the pitch
\* classes C, D, E, F, G, A, B the same weight int(2 * duration) > 0, and no
\* weight to the other five, answers C major, with a correlation strictly
\* greater than that of each of the other 23 keys.
C14_EvenCMajorScaleGivesCMajor ==
    (/\ last.op = "detect_key"
     /\ WeightOf(melody, 0) > 0
     /\ \A pc \in 0..11 :
           WeightOf(melody, pc) = IF pc \in CMajorPitchClasses THEN WeightOf(melody, 0) ELSE 0)
        => CMajorWins

C14_Witness ==
    /\ last.op = "detect_key"
    /\ Len(melody) = 7
    /\ \A pc \in CMajorPitchClasses : WeightOf(melody, pc) = WeightOf(melody, 0)
    /\ WeightOf(melody, 0) > 0
    /\ last.key.tonic = <<"C">>
    /\ last.key.scale_type = "major"
    /\ FracLess(Zero, last.key.confidence)

\* the chord has the root and the quality of one of the key's diatonic chords
ExactlyDiatonic(chord, key) ==
    \E i \in DOMAIN get_diatonic_chords(key) :
        /\ get_diatonic_chords(key)[i].root = chord.root
        /\ get_diatonic_chords(key)[i].quality = chord.quality

\* C15: for every key, get_closest_diatonic_chord returns the chord it was
\* given, with its root, quality and extensions, whenever the chord's root
\* and quality are those of one of the key's diatonic chords.
C15_DiatonicChordUnchanged ==
    (last.op = "get_closest_diatonic_chord" /\ ExactlyDiatonic(last.chord, last.key))
        => /\ ~last.result.raised
           /\ last.result.chord = last.chord
           /\ last.result.chord.root = last.chord.root
           /\ last.result.chord.quality = last.chord.quality
           /\ last.result.chord.extensions = last.chord.extensions

\* Fm7 with a ninth is the second chord of Eb major
C15_Witness ==
    /\ last.op = "get_closest_diatonic_chord"
    /\ last.key = Key(<<"E", "b">>, "major")
    /\ last.chord = JazzChord(<<"F">>, m7, << <<"9">> >>)
    /\ ExactlyDiatonic(last.chord, last.key)
    /\ last.result = Returned(last.chord)

-----------------------------------------------------------------------------
(* The chord's and the transition model's claims *)

\* the two chords have the same root, quality and set of extensions
SameChord(a, b) ==
    /\ a.root = b.root
    /\ a.quality = b.quality
    /\ Range(a.extensions) = Range(b.extensions)

\* C16 (as claimed): two chords are equal exactly when they have the same
\* root, the same quality and the same extensions as an unordered set; equal
\* chords have equal hashes, and as the first chord of two progressions they
\* make one state of an order-1 model.
C16_EqualityIgnoresExtensionOrder ==
    last.op = "compare"
        => /\ last.eq <=> SameChord(last.self, last.other)
           /\ SameChord(last.self, last.other) => last.hashes[1] = last.hashes[2]
           /\ SameChord(last.self, last.other)
                 => Len(TrainCounts(<<>>, <<<<last.self, Cmaj7>>, <<last.other, Cmaj7>>>>, 1)) = 1

\* C17 (as claimed): a trained model saved with save_model and loaded into
\* another model with load_model loads without error, and the other model
\* then has the same order, a probability table with the same states and the
\* same chord -> probability entries, and the same list of start states.
C17_SaveLoadRoundTrip ==
    (last.op = "load_model" /\ trains > 0)
        => /\ ~last.loaded.raised
           /\ last.loaded.order = order
           /\ TableEq(last.loaded.probabilities, probabilities)
           /\ last.loaded.start_states = start_states

\* C18 (as claimed): construction with an order below 1 having failed, no
\* model that is trained or queried has an order below 1.
C18_OrderBelowOneRejected ==
    last.op \in {"train", "predict_next", "get_possible_next"} => order >= 1

\* C19 (as claimed): predict_next, get_possible_next and generate_sequence
\* called with a temperature below 0 fail with an error: get_possible_next
\* returns no distribution, and the other two raise and return no chord.
C19_NegativeTemperatureRejected ==
    (/\ last.op \in {"predict_next", "get_possible_next", "generate_sequence"}
     /\ last.temperature[1] < 0)
        => /\ last.op # "get_possible_next"
           /\ last.raised

\* the states predict_next can have looked up in the call just made
LookedUp ==
    IF Len(last.history) >= order THEN {LastOrder(last.history)}
    ELSE IF last.history = <<>> /\ start_states # <<>> THEN Range(start_states)
    ELSE {last.history_after}

\* C20: when predict_next misses the state it looks up, then (a) if the order
\* is above 1 and the state without its oldest chord is a state of the table,
\* the chord is drawn from that state's distribution; else (b) if the table
\* has any state, the chord is drawn from the aggregate, whose chords are
\* exactly the next chords of all the states and whose weights sum to 1;
\* (c) only when the table has no state does the chord come from the curated
\* set.
C20_FallbackChainOrder ==
    last.op = "predict_next"
        => \E state \in LookedUp :
              \/ HasKey(probabilities, state)
              \/ /\ order > 1
                 /\ HasKey(probabilities, Tail(state))
                 /\ ~last.raised
                 /\ last.chord \in DictKeys(Get(probabilities, Tail(state)))
              \/ /\ ~(order > 1 /\ HasKey(probabilities, Tail(state)))
                 /\ probabilities # <<>>
                 /\ ~last.raised
                 /\ last.chord \in Range(AllNextChords(probabilities))
                 /\ DictKeys(_get_global_frequencies) = Range(AllNextChords(probabilities))
                 /\ FracSum([i \in DOMAIN _get_global_frequencies |->
                                _get_global_frequencies[i].v]) = One
              \/ /\ probabilities = <<>>
                 /\ ~last.raised
                 /\ last.chord \in Range(common_chords) \cup {E7}

\* an order-2 model with states misses <<G7, Dm7>> and answers Cmaj7 from the
\* aggregate, where the curated table continues Dm7 with G7
C20_Witness ==
    /\ last.op = "predict_next"
    /\ order = 2
    /\ probabilities # <<>>
    /\ last.history = <<G7, Dm7>>
    /\ ~HasKey(probabilities, last.history)
    /\ ~last.raised
    /\ last.chord = Cmaj7
    /\ Cmaj7 \in Range(AllNextChords(probabilities))

-----------------------------------------------------------------------------
(* The scale refinement's and the scale degrees' claims *)

\* the scale the refinement gives when each characteristic pitch class is
\* counted from the detected tonic t
RefinedFromTonic(provisional, t, pitch_classes) ==
    LET has(n) == HasPitchClass(pitch_classes, (t + n) % 12)
    IN IF provisional = "natural_minor"
       THEN IF has(8) THEN "dorian"
            ELSE IF has(11) THEN "melodic_minor"
            ELSE IF has(3) /\ has(6) THEN "harmonic_minor"
            ELSE provisional
       ELSE IF has(6) THEN "lydian"
            ELSE IF has(10) THEN "mixolydian"
            ELSE provisional

\* C21: detect_key refines the provisional scale by the pitch classes counted
\* from the detected tonic t: minor becomes dorian iff the melody has
\* (t+8) mod 12, else melodic minor iff it has (t+11) mod 12, else harmonic
\* minor iff it has (t+3) mod 12 and (t+6) mod 12; major becomes lydian iff it
\* has (t+6) mod 12, else mixolydian iff it has (t+10) mod 12; otherwise the
\* provisional scale is kept, on every tonic
C21_RefinementRelativeToTonic ==
    (last.op = "detect_key" /\ melody # <<>>) =>
        LET pitch_classes == _extract_pitch_classes(melody)
            best == Candidates[BestCandidate(_get_pitch_class_distribution(pitch_classes))]
        IN last.key.scale_type
               = RefinedFromTonic(best.scale_type, best.tonic, pitch_classes)

\* the elements of s are pairwise distinct
Distinct(s) == \A i, j \in DOMAIN s : i # j => s[i] # s[j]

\* C22: get_scale_degrees(tonic, scale_type) returns exactly 7 pitch classes
\* for a seven-note scale and 6 for blues, pairwise distinct, the first the
\* tonic and each next one the previous plus the pattern's interval mod 12;
\* get_diatonic_chords of a seven-note scale has 7 chords on distinct roots
C22_ScaleDegreesSevenDistinct ==
    /\ last.op = "get_scale_degrees" =>
          LET pattern == Get(scale_patterns, last.scale_type)
              degrees == last.degrees
          IN /\ Len(degrees) = IF last.scale_type = "blues" THEN 6 ELSE 7
             /\ Distinct(degrees)
             /\ degrees[1] = last.tonic
             /\ \A i \in 2..Len(degrees) :
                   degrees[i] = (degrees[i - 1] + pattern[i - 1]) % 12
    /\ (last.op = "get_diatonic_chords" /\ last.key.scale_type # "blues") =>
          /\ Len(last.chords) = 7
          /\ Distinct([i \in DOMAIN last.chords |-> last.chords[i].root])

-----------------------------------------------------------------------------
(* The phrase-aware model's claims *)

\* the fixed cadence chords of _get_cadence_candidates
common_cadences == {G7, Cmaj7, Am7}

\* C23: predict_next_with_phrases at a cadence (is_cadence true) returns a
\* chord chosen from the cadence table alone: a chord recorded there for the
\* trailing window of the padded history when the window is in the table, and
\* one of G7, Cmaj7, Am7 when it is not
C23_CadenceTableOnly ==
    (last.op = "predict_next_with_phrases" /\ last.phrase_context.is_cadence) =>
        /\ ~last.raised
        /\ \E p \in Pads(last.history) :
              IF HasKey(cadence_progressions, p.ret)
              THEN last.chord \in DictKeys(Get(cadence_progressions, p.ret))
              ELSE last.chord \in common_cadences

\* the phrase-aware table has counted next under a state on the window
RecordedWithPhrases(window, next) ==
    \E e \in DOMAIN phrase_transitions :
        /\ phrase_transitions[e].k.previous_chords = window
        /\ HasKey(phrase_transitions[e].v, next)

\* C24: train_with_phrases records, for every progression and every window
\* of N chords that a further chord follows, the pair (window, the chord
\* after the window) under the PhraseAwareState of that window, the pairs
\* train counts; and predict_next_with_phrases on a trained state's window
\* and context hits that state, so it returns a chord
C24_TrainWithPhrasesRecordsWindows ==
    /\ last.op = "train_with_phrases" =>
          /\ ~last.raised
          /\ \A k \in DOMAIN last.progressions :
                k <= Len(last.phrase_analyses) =>
                   \A i \in 1..(Len(last.progressions[k]) - order) :
                      RecordedWithPhrases(
                          SubSeq(last.progressions[k], i, i + order - 1),
                          last.progressions[k][i + order])
    /\ (/\ last.op = "predict_next_with_phrases"
        /\ \E e \in DOMAIN phrase_transitions :
              \E p \in Pads(last.history) :
                  phrase_transitions[e].k.previous_chords = p.ret)
          => ~last.raised

\* C25: after train_with_phrases(progressions, phrase_analyses) on a new
\* model the plain transition table, its probabilities and the start states
\* are those train(progressions) gives a new model
C25_TrainWithPhrasesTrainsPlainTable ==
    last.op = "train_with_phrases" =>
        /\ transitions = TrainCounts(<<>>, last.progressions, order)
        /\ probabilities = _compute_probabilities(TrainCounts(<<>>, last.progressions, order))
        /\ start_states = _find_common_start_states(last.progressions, order)

-----------------------------------------------------------------------------
(* The frame, partition, safety and shape claims *)

\* C26: predict_next and predict_next_with_phrases leave the caller's history
\* list as it was, in length and contents, for every history, those shorter
\* than the order N included
C26_CallerHistoryUnchanged ==
    last.op \in {"predict_next", "predict_next_with_phrases"} =>
        last.history_after = last.history

\* how many times note occurs in notes
Occurs(notes, note) == Cardinality({j \in DOMAIN notes : notes[j] = note})

\* C27: analyze_phrases partitions a non-empty melody: every note of the
\* input is in exactly one of the returned phrases, none dropped and none
\* twice, by rests or by equal division and whatever total_bars is, and the
\* list of phrases is not empty
C27_SegmentPartitionsMelody ==
    (last.op = "analyze_phrases" /\ melody # <<>>) =>
        /\ last.phrases # <<>>
        /\ \A note \in Range(melody) \cup Range(Flatten(last.phrases)) :
              Occurs(Flatten(last.phrases), note) = Occurs(melody, note)

\* the chords that are a next chord of some trained state
TrainedNextChords == Range(AllNextChords(probabilities))

\* the length of the seed generate_sequence started the call in progress from
SeedLen ==
    IF last.start_sequence # <<>> THEN Len(last.start_sequence)
    ELSE IF start_states # <<>> THEN Len(start_states[1])
    ELSE 2

\* C28: on a model with at least one trained state, every chord predict_next
\* returns at a temperature >= 0 is a next chord of some trained state, and so
\* is every chord of a progression generate_sequence returns that comes after
\* its seed; no curated default chord is emitted
C28_OnlyTrainedChordsEmitted ==
    /\ (/\ last.op = "predict_next"
        /\ probabilities # <<>>
        /\ ~FracLess(last.temperature, Zero)
        /\ ~last.raised)
          => last.chord \in TrainedNextChords
    /\ (/\ last.op = "generate_sequence"
        /\ probabilities # <<>>
        /\ ~FracLess(last.temperature, Zero))
          => \A i \in (SeedLen + 1)..Len(last.progression) :
                last.progression[i] \in TrainedNextChords

\* the least number of semitones up or down from pitch class x to pitch class y
SemitonesApart(x, y) ==
    CHOOSE k \in 0..6 :
        /\ (x + k) % 12 = y \/ (y + k) % 12 = x
        /\ \A j \in 0..(k - 1) : (x + j) % 12 # y /\ (y + j) % 12 # x

\* C29: for every key and every chord whose root note_indices names,
\* get_closest_diatonic_chord returns a chord with the root and quality of
\* one of the key's diatonic chords; when the chord given is not diatonic the
\* root returned is a scale degree at the least circular distance from the
\* root given; and the chord returned is returned unchanged when it is
\* given again
C29_NearestDiatonicIsDiatonic ==
    last.op = "get_closest_diatonic_chord" =>
        LET key == last.key
            result == last.result.chord
            chord_root_index == Get(note_indices, last.chord.root)
            scale_degrees ==
                Take(get_scale_degrees(Get(note_indices, key.tonic), key.scale_type), 7)
        IN /\ ~last.result.raised
           /\ ExactlyDiatonic(result, key)
           /\ ~ExactlyDiatonic(last.chord, key) =>
                 /\ Get(note_indices, result.root) \in Range(scale_degrees)
                 /\ \A d \in Range(scale_degrees) :
                       SemitonesApart(Get(note_indices, result.root), chord_root_index)
                           <= SemitonesApart(d, chord_root_index)
           /\ get_closest_diatonic_chord(result, key) = Returned(result)

\* C7 in B blues: the closest degree is B, a semitone below C across the
\* octave, and the chord returned is B7
C29_Witness ==
    /\ last.op = "get_closest_diatonic_chord"
    /\ last.key = Key(<<"B">>, "blues")
    /\ last.chord = JazzChord(<<"C">>, dom7, <<>>)
    /\ ~ExactlyDiatonic(last.chord, last.key)
    /\ last.result = Returned(JazzChord(<<"B">>, dom7, <<>>))

\* C30: after any train calls on a model of order N every key of the count
\* table and of the probability table has exactly N chords, every start state
\* has exactly N chords and there are at most 10 of them; the state
\* predict_next looks up, the history cut or padded, has exactly N chords, and
\* that state without its oldest chord, N-1 chords long, is no key of the
\* table
C30_StatesHaveOrderChords ==
    /\ \A e \in DOMAIN transitions : Len(transitions[e].k) = order
    /\ \A e \in DOMAIN probabilities : Len(probabilities[e].k) = order
    /\ \A i \in DOMAIN start_states : Len(start_states[i]) = order
    /\ Len(start_states) <= 10
    /\ last.op = "predict_next" =>
          \A p \in Pads(last.history) :
             /\ Len(p.ret) = order
             /\ ~HasKey(probabilities, Tail(p.ret))

\* an order-2 model that kept 10 of 11 opening windows pads the history
\* <<Dm7>> to a state of two chords and finds it in no table
C30_Witness ==
    /\ last.op = "predict_next"
    /\ order = 2
    /\ Len(start_states) = 10
    /\ Len(probabilities) > 10
    /\ last.history = <<Dm7>>
    /\ last.history_after = <<Dm7, Dm7>>
    /\ ~last.raised

====
